---------------------------- MODULE Spec2Model ----------------------------
(***************************************************************************)
(* A model of the ftp-client crate (src/src/client.rs, status_code.rs,     *)
(* sync.rs, error.rs).                                                     *)
(*                                                                         *)
(* Text is a sequence of one-character strings; offsets are the 0-based    *)
(* byte offsets of the Rust code (the replies handled here are ASCII).     *)
(* A Rust Result is a record with a tag: "Ok", "Err" (with the variant of  *)
(* error::Error in kind) or "Panic" (the process aborts).                  *)
(***************************************************************************)
EXTENDS Integers, Sequences, FiniteSets, TLC

VARIABLES
    \* ---- the session (client::Client) and its two connections ----
    mode,           \* Client.mode
    welcome_string, \* Client.welcome_string
    buffer,         \* Client.buffer, the reused line buffer
    ctrlIn,         \* control stream: lines the server sent, not yet read
    ctrlOut,        \* command lines written by the running operation
    op,             \* the running operation ("none" when idle)
    args,           \* its arguments
    pc,             \* where the running operation stands
    result,         \* the operation that returned last and what it returned
    conn,           \* the operation's data connection: "none", "open", "closed"
    dataIn,         \* data stream: bytes the server sent, not yet read
    dataSrvClosed,  \* the server closed its end of the data connection
    dataBuf,        \* bytes read_to_end has collected
    dataOut,        \* bytes write_all has written on the data connection
    ctrlRead,       \* reply lines the running operation has read
    socket,         \* the address the negotiation reply was decoded to
    \* ---- one call of a pure function, or a scripted server ----
    fn,             \* the function called ("none" in the session's runs)
    fnIn,           \* its input (the script of the scripted server)
    fnOut           \* its output ([tag |-> "pending"] before the call)

sessionVars == <<mode, welcome_string, buffer, ctrlIn, ctrlOut, op, args, pc,
                 result, conn, dataIn, dataSrvClosed, dataBuf, dataOut, ctrlRead,
                 socket>>
fnVars == <<fn, fnIn, fnOut>>
vars == <<sessionVars, fnVars>>

---------------------------------------------------------------------------
(* Characters and text                                                     *)

U8Max == 255
U16Max == 65535

DigitChars == <<"0", "1", "2", "3", "4", "5", "6", "7", "8", "9">>
IsDigit(c) == \E i \in 1..10 : DigitChars[i] = c
DigitVal(c) == (CHOOSE i \in 1..10 : DigitChars[i] = c) - 1

CR == "\r"
LF == "\n"
IsWhitespace(c) == c \in {" ", "\t", CR, LF}

\* s[a..b] of Rust, 0-based and half-open; the caller checks a <= b <= len.
Slice(s, a, b) == SubSeq(s, a + 1, b)

\* str::find(char): the offset of the first c in s, -1 for None.
Find(s, c) ==
    IF \E i \in 1..Len(s) : s[i] = c
    THEN (CHOOSE i \in 1..Len(s) : s[i] = c /\ \A j \in 1..(i - 1) : s[j] # c) - 1
    ELSE -1

\* str::rfind(char): the offset of the last c in s, -1 for None.
RFind(s, c) ==
    IF \E i \in 1..Len(s) : s[i] = c
    THEN (CHOOSE i \in 1..Len(s) : s[i] = c /\ \A j \in (i + 1)..Len(s) : s[j] # c) - 1
    ELSE -1

\* str::find(&str): the offset of the first occurrence of pat in s, -1 for None.
FindStr(s, pat) ==
    LET At(i) == i + Len(pat) - 1 <= Len(s) /\ SubSeq(s, i, i + Len(pat) - 1) = pat
    IN  IF \E i \in 1..Len(s) : At(i)
        THEN (CHOOSE i \in 1..Len(s) : At(i) /\ \A j \in 1..(i - 1) : ~At(j)) - 1
        ELSE -1

RECURSIVE TrimStart(_)
TrimStart(s) ==
    IF s # <<>> /\ IsWhitespace(Head(s)) THEN TrimStart(Tail(s)) ELSE s

RECURSIVE TrimEnd(_)
TrimEnd(s) ==
    IF s # <<>> /\ IsWhitespace(s[Len(s)])
    THEN TrimEnd(SubSeq(s, 1, Len(s) - 1))
    ELSE s

\* str::trim
Trim(s) == TrimEnd(TrimStart(s))

RECURSIVE DecVal(_)
DecVal(s) ==
    IF s = <<>> THEN 0
    ELSE 10 * DecVal(SubSeq(s, 1, Len(s) - 1)) + DigitVal(s[Len(s)])

\* str::parse for an unsigned integer type of maximum max: an optional '+',
\* then one or more decimal digits whose value fits; -1 for Err.
StrParse(s, max) ==
    LET digits == IF s # <<>> /\ Head(s) = "+" THEN Tail(s) ELSE s
    IN  IF digits = <<>> THEN -1
        ELSE IF \E i \in 1..Len(digits) : ~IsDigit(digits[i]) THEN -1
        ELSE IF DecVal(digits) > max THEN -1
        ELSE DecVal(digits)

\* str::split(char): the pieces of s between the occurrences of c (one piece,
\* maybe empty, when there is none).
RECURSIVE Split(_, _)
Split(s, c) ==
    IF Find(s, c) = -1 THEN <<s>>
    ELSE <<Slice(s, 0, Find(s, c))>> \o Split(Slice(s, Find(s, c) + 1, Len(s)), c)

---------------------------------------------------------------------------
(* status_code.rs                                                          *)

StatusCodeKinds ==
    {"TransferStarted", "TransferAboutToStart", "Ok", "FeatureNotImplemented",
     "SystemStatus", "HelpMessage", "NameSystemType", "ReadyForNewUser",
     "ClosingControlConnection", "RequestActionCompleted", "UserLoggedIn",
     "EnteredPassiveMode", "EnteredExtendedPassiveMode",
     "RequestFileActionCompleted", "PasswordRequired", "RequestActionPending",
     "CommandUnrecognized", "SecurityMechanismNotImplemented",
     "RequestActionDenied", "FileNameNotAllowed", "Unknown"}

\* impl From<u16> for StatusCodeKind
StatusCodeKindFrom(code) ==
    CASE code = 125 -> "TransferStarted"
      [] code = 150 -> "TransferAboutToStart"
      [] code = 200 -> "Ok"
      [] code = 202 -> "FeatureNotImplemented"
      [] code = 211 -> "SystemStatus"
      [] code = 214 -> "HelpMessage"
      [] code = 215 -> "NameSystemType"
      [] code = 221 -> "ClosingControlConnection"
      [] code = 220 -> "ReadyForNewUser"
      [] code = 226 -> "RequestActionCompleted"
      [] code = 227 -> "EnteredPassiveMode"
      [] code = 229 -> "EnteredExtendedPassiveMode"
      [] code = 230 -> "UserLoggedIn"
      [] code = 250 -> "RequestFileActionCompleted"
      [] code = 331 -> "PasswordRequired"
      [] code = 350 -> "RequestActionPending"
      [] code = 500 -> "CommandUnrecognized"
      [] code = 504 -> "SecurityMechanismNotImplemented"
      [] code = 550 -> "RequestActionDenied"
      [] code = 553 -> "FileNameNotAllowed"
      [] OTHER -> "Unknown"

\* StatusCode::is_valid
is_valid(sc) == sc.code > 199 /\ sc.code < 399

\* StatusCode::is_failure
is_failure(sc) == sc.code > 399 /\ sc.code < 599

Panic == [tag |-> "Panic"]
Err(k) == [tag |-> "Err", kind |-> k]

\* StatusCode::parse with the slice text[0..2]: the third digit is lost.
StatusCodeParseTwoDigits(text) ==
    IF Len(text) < 3 THEN Panic
    ELSE LET code == StrParse(Slice(text, 0, 2), U16Max)
         IN  IF code = -1 THEN Panic
             ELSE [tag |-> "Ok", kind |-> StatusCodeKindFrom(code), code |-> code]

\* StatusCode::parse: text[0..3] panics on a text shorter than 3, unwrap
\* panics when the slice is no u16.
StatusCodeParse(text) ==
    IF Len(text) < 3 THEN Panic
    ELSE LET code == StrParse(Slice(text, 0, 3), U16Max)
         IN  IF code = -1 THEN Panic
             ELSE [tag |-> "Ok", kind |-> StatusCodeKindFrom(code), code |-> code]

\* ServerResponse::parse without the trim of the message.
ServerResponseParseUntrimmed(text) ==
    LET status_code == StatusCodeParse(text)
    IN  IF status_code.tag = "Panic" THEN Panic
        ELSE [tag |-> "Ok",
              message |-> Slice(text, 3, Len(text)),
              status_code |-> [kind |-> status_code.kind, code |-> status_code.code]]

\* ServerResponse::parse
ServerResponseParse(text) ==
    LET status_code == StatusCodeParse(text)
    IN  IF status_code.tag = "Panic" THEN Panic
        ELSE [tag |-> "Ok",
              message |-> Trim(Slice(text, 3, Len(text))),
              status_code |-> [kind |-> status_code.kind, code |-> status_code.code]]

\* ServerResponse::is_failure_status
is_failure_status(response) == is_failure(response.status_code)

\* ServerResponse::summarize_error: the code, the message and the expected
\* kinds, in the order the format string names them.
summarize_error(response, expected) ==
    [code |-> response.status_code.code,
     message |-> response.message,
     expected |-> expected]

---------------------------------------------------------------------------
(* client.rs: the reply check and the two address decoders                 *)

\* parse_reply_expecting without its test: every reply is returned as Ok.
ExpectingAny(response, valid_statuses) ==
    [tag |-> "Ok", response |-> response, warned |-> TRUE]

\* Client::parse_reply_expecting, after the line was read: warn! is called
\* on every reply, before the test.
Expecting(response, valid_statuses) ==
    LET is_expected_status == response.status_code.kind \in valid_statuses
        is_positive_status == is_valid(response.status_code)
    IN  IF is_expected_status \/ is_positive_status
        THEN [tag |-> "Ok", response |-> response, warned |-> TRUE]
        ELSE [tag |-> "Err", kind |-> "UnexpectedStatusCode",
              summary |-> summarize_error(response, valid_statuses),
              warned |-> TRUE]

\* Client::parse_reply then the check of parse_reply_expecting, on the line
\* read_line put in the buffer.
ParseReplyExpecting(line, valid_statuses) ==
    LET parsed == ServerResponseParse(line)
    IN  IF parsed.tag = "Panic" THEN Panic
        ELSE Expecting([message |-> parsed.message,
                        status_code |-> parsed.status_code], valid_statuses)

\* .flat_map(|val| val.parse()) into Vec<u8>: the tokens that parse as u8, in
\* order; the others are dropped.
RECURSIVE FlatMapParseU8(_)
FlatMapParseU8(tokens) ==
    IF tokens = <<>> THEN <<>>
    ELSE (IF StrParse(Head(tokens), U8Max) = -1
          THEN <<>>
          ELSE <<StrParse(Head(tokens), U8Max)>>) \o FlatMapParseU8(Tail(tokens))

\* decode_passive_mode_ip with the port computed in u8, without the casts to
\* u16.
decode_passive_mode_ip_u8(message) ==
    LET first_bracket == Find(message, "(")
        second_bracket == Find(message, ")")
    IN  IF first_bracket = -1 \/ second_bracket = -1
        THEN Err("InvalidSocketPassiveMode")
        ELSE IF first_bracket + 1 > second_bracket THEN Panic
        ELSE LET nums == FlatMapParseU8(
                            Split(Slice(message, first_bracket + 1, second_bracket), ","))
             IN  IF Len(nums) < 4 THEN Err("InvalidSocketPassiveMode")
                 ELSE IF Len(nums) < 6 THEN Panic
                 ELSE [tag |-> "Ok",
                       ip |-> <<nums[1], nums[2], nums[3], nums[4]>>,
                       port |-> (256 * nums[5] + nums[6]) % (U8Max + 1)]

\* Client::decode_passive_mode_ip. message[start + 1..end] panics when
\* start + 1 > end; nums[4] and nums[5] panic when nums is shorter.
decode_passive_mode_ip(message) ==
    LET first_bracket == Find(message, "(")
        second_bracket == Find(message, ")")
    IN  IF first_bracket = -1 \/ second_bracket = -1
        THEN Err("InvalidSocketPassiveMode")
        ELSE IF first_bracket + 1 > second_bracket THEN Panic
        ELSE LET nums == FlatMapParseU8(
                            Split(Slice(message, first_bracket + 1, second_bracket), ","))
             IN  IF Len(nums) < 4 THEN Err("InvalidSocketPassiveMode")
                 ELSE IF Len(nums) < 6 THEN Panic
                 ELSE [tag |-> "Ok",
                       ip |-> <<nums[1], nums[2], nums[3], nums[4]>>,
                       port |-> (256 * nums[5] + nums[6]) % (U16Max + 1)]

\* decode_extended_passive_mode_socket with the closing delimiter looked up
\* by find instead of rfind: it finds the first '|' of "|||".
decode_extended_passive_mode_socket_find(response, peer) ==
    LET first_delimiter == FindStr(response, <<"|", "|", "|">>)
        second_delimiter == Find(response, "|")
    IN  IF first_delimiter = -1 \/ second_delimiter = -1
        THEN Err("InvalidSocketPassiveMode")
        ELSE IF first_delimiter + 3 > second_delimiter THEN Panic
        ELSE LET port == StrParse(Slice(response, first_delimiter + 3, second_delimiter),
                                  U16Max)
             IN  IF port = -1 THEN Err("InvalidSocketPassiveMode")
                 ELSE IF peer.tag # "Ok" THEN Err("InvalidSocketPassiveMode")
                 ELSE [tag |-> "Ok", ip |-> peer.ip, port |-> port]

\* Client::decode_extended_passive_mode_socket. peer is the outcome of
\* ClientStream::peer_addr on the control connection. response[start + 3..end]
\* panics when start + 3 > end.
decode_extended_passive_mode_socket(response, peer) ==
    LET first_delimiter == FindStr(response, <<"|", "|", "|">>)
        second_delimiter == RFind(response, "|")
    IN  IF first_delimiter = -1 \/ second_delimiter = -1
        THEN Err("InvalidSocketPassiveMode")
        ELSE IF first_delimiter + 3 > second_delimiter THEN Panic
        ELSE LET port == StrParse(Slice(response, first_delimiter + 3, second_delimiter),
                                  U16Max)
             IN  IF port = -1 THEN Err("InvalidSocketPassiveMode")
                 ELSE IF peer.tag # "Ok" THEN Err("InvalidSocketPassiveMode")
                 ELSE [tag |-> "Ok", ip |-> peer.ip, port |-> port]

---------------------------------------------------------------------------
(* Bounds of the session model                                             *)

MaxQueue == 1   \* reply lines in flight on the control connection
MaxData == 2    \* bytes a server sends on one data connection

\* Reply lines a server may send on the control connection.
ReplyLines ==
    {<<"2", "2", "0", " ", "h", "i", CR, LF>>,
     <<"1", "5", "0", " ", "g", "o", CR, LF>>,
     <<"2", "2", "6", " ", "o", "k", CR, LF>>,
     <<"2", "2", "7", " ", "(", "1", ",", "2", ",", "3", ",", "4", ",", "5", ",", "6", ")",
       CR, LF>>,
     <<"2", "2", "9", " ", "(", "|", "|", "|", "9", "|", ")", CR, LF>>,
     <<"5", "5", "0", " ", "n", "o", CR, LF>>}

\* Bytes on a data connection; "xFF" is a byte that is not valid UTF-8.
DataBytes == {"a", LF, "xFF"}

\* Byte payloads a caller hands to store, store_unique and append.
Payloads == {<<>>, <<"a">>, <<"a", "b">>}

Paths == {"/"}
PeerAddr == [tag |-> "Ok", ip |-> "203.0.113.5"]

None == [tag |-> "None"]
Some(x) == [tag |-> "Some", value |-> x]
Ok(x) == [tag |-> "Ok", value |-> x]
IoError == Err("IoError")

---------------------------------------------------------------------------
(* client.rs: the operations of Client                                     *)

Downloads == {"list", "list_names", "retrieve_file"}
Uploads == {"store", "store_unique", "append"}
Transfers == Downloads \cup Uploads
TwoStep == {"login", "rename_file"}
ControlOnly ==
    {"logout", "cwd", "cdup", "help", "noop", "status", "remove_directory",
     "make_directory", "pwd", "site_parameters", "system", "delete_file"}
Unimplemented == {"restart", "abort", "allocate"}

\* The command an operation writes at "cmd_write": its verb, whether it
\* takes an argument (write_unary_command) and the kinds expected in reply.
Command(o) ==
    CASE o = "connect" -> [cmd |-> "USER", unary |-> TRUE, valid |-> {"PasswordRequired"}]
      [] o = "login" -> [cmd |-> "USER", unary |-> TRUE, valid |-> {"PasswordRequired"}]
      [] o = "logout" ->
            [cmd |-> "QUIT", unary |-> FALSE, valid |-> {"ClosingControlConnection"}]
      [] o = "cwd" ->
            [cmd |-> "CWD", unary |-> TRUE, valid |-> {"RequestFileActionCompleted"}]
      [] o = "cdup" ->
            [cmd |-> "CDUP", unary |-> FALSE, valid |-> {"RequestFileActionCompleted"}]
      [] o = "help" ->
            [cmd |-> "HELP", unary |-> FALSE, valid |-> {"SystemStatus", "HelpMessage"}]
      [] o = "noop" -> [cmd |-> "NOOP", unary |-> FALSE, valid |-> {"Ok"}]
      [] o = "status" -> [cmd |-> "STAT", unary |-> FALSE, valid |-> {"SystemStatus"}]
      [] o = "list" ->
            [cmd |-> "LIST", unary |-> TRUE,
             valid |-> {"TransferStarted", "TransferAboutToStart"}]
      [] o = "list_names" ->
            [cmd |-> "NLST", unary |-> TRUE,
             valid |-> {"TransferStarted", "TransferAboutToStart"}]
      [] o = "store" ->
            [cmd |-> "STOR", unary |-> TRUE,
             valid |-> {"TransferStarted", "TransferAboutToStart"}]
      [] o = "store_unique" ->
            [cmd |-> "STOU", unary |-> FALSE,
             valid |-> {"TransferStarted", "TransferAboutToStart"}]
      [] o = "append" ->
            [cmd |-> "APPE", unary |-> TRUE,
             valid |-> {"TransferStarted", "TransferAboutToStart"}]
      [] o = "rename_file" ->
            [cmd |-> "RNFR", unary |-> TRUE, valid |-> {"RequestActionPending"}]
      [] o = "remove_directory" ->
            [cmd |-> "RMD", unary |-> TRUE, valid |-> {"RequestFileActionCompleted"}]
      [] o = "make_directory" ->
            [cmd |-> "MKD", unary |-> TRUE, valid |-> {"PathCreated"}]
      [] o = "pwd" -> [cmd |-> "PWD", unary |-> FALSE, valid |-> {"PathCreated"}]
      [] o = "site_parameters" ->
            [cmd |-> "SITE", unary |-> FALSE, valid |-> {"Ok", "FeatureNotImplemented"}]
      [] o = "system" -> [cmd |-> "SYST", unary |-> FALSE, valid |-> {"NameSystemType"}]
      [] o = "delete_file" ->
            [cmd |-> "DELE", unary |-> TRUE, valid |-> {"RequestFileActionCompleted"}]
      [] o = "retrieve_file" ->
            [cmd |-> "RETR", unary |-> TRUE,
             valid |-> {"TransferAboutToStart", "TransferStarted"}]

\* The second command of login (and of connect, which calls login) and of
\* rename_file, written at "cmd2_write".
Command2(o) ==
    IF o = "rename_file"
    THEN [cmd |-> "RNTO", unary |-> TRUE, valid |-> {"RequestFileActionCompleted"}]
    ELSE [cmd |-> "PASS", unary |-> TRUE, valid |-> {"UserLoggedIn"}]

\* get_data_connection calling passive_mode_connection whatever the mode.
NegotiationAlwaysPassive(m) ==
    [cmd |-> "PASV", unary |-> FALSE, valid |-> {"EnteredPassiveMode"}]

\* The negotiation command of passive_mode_connection and of
\* extended_passive_mode_connection, written at "neg_write".
Negotiation(m) ==
    IF m = "Passive"
    THEN [cmd |-> "PASV", unary |-> FALSE, valid |-> {"EnteredPassiveMode"}]
    ELSE [cmd |-> "EPSV", unary |-> FALSE, valid |-> {"EnteredExtendedPassiveMode"}]

\* The completion reply checked against RequestActionDenied as well.
CompletionValidWithDenied(o) ==
    {"RequestActionCompleted", "RequestFileActionCompleted", "RequestActionDenied"}

\* The kinds the completion reply of a transfer is checked against.
CompletionValid(o) ==
    IF o = "append"
    THEN {"RequestActionCompleted", "RequestFileActionCompleted"}
    ELSE {"RequestActionCompleted"}

\* The command written at pc.
CommandAt(p, o, m) ==
    CASE p = "neg_write" -> Negotiation(m)
      [] p = "cmd_write" -> Command(o)
      [] p = "cmd2_write" -> Command2(o)

\* The kinds the reply read at pc is checked against.
ValidAt(p, o, m) ==
    CASE p = "greet_read" -> {"ReadyForNewUser"}
      [] p = "neg_read" -> Negotiation(m).valid
      [] p = "cmd_read" -> Command(o).valid
      [] p = "cmd2_read" -> Command2(o).valid
      [] p = "compl_read" -> CompletionValid(o)

\* write_command and write_unary_command: the line put on the control
\* connection, as its verb and its argument (None for write_command).
CommandLine(c, a) ==
    [cmd |-> c.cmd, arg |-> IF c.unary THEN Some(a) ELSE None]

\* The argument of the command written at pc.
ArgAt(p, o, a) ==
    CASE p = "cmd_write" /\ o \in {"connect", "login"} -> a.user
      [] p = "cmd2_write" /\ o \in {"connect", "login"} -> a.password
      [] p = "cmd_write" /\ o = "rename_file" -> a.path_from
      [] p = "cmd2_write" /\ o = "rename_file" -> a.path_to
      [] OTHER -> a.path

\* String::from_utf8 on the bytes of the data connection.
IsUtf8(bytes) == \A i \in 1..Len(bytes) : bytes[i] # "xFF"

\* str::lines replaced by str::split('\n'): the CR stays, and a text that
\* ends with LF yields one more, empty, piece.
LinesSplit(text) == Split(text, LF)

\* str::lines: the text cut after each LF, each piece without its LF and
\* without a CR before it.
RECURSIVE Lines(_)
Lines(text) ==
    IF text = <<>> THEN <<>>
    ELSE LET i == Find(text, LF)
             piece == IF i = -1 THEN text ELSE Slice(text, 0, i)
             rest == IF i = -1 THEN <<>> ELSE Slice(text, i + 1, Len(text))
             line == IF i # -1 /\ piece # <<>> /\ piece[Len(piece)] = CR
                     THEN Slice(piece, 0, Len(piece) - 1)
                     ELSE piece
         IN  <<line>> \o Lines(rest)

NoArgs == [path |-> "-"]
NoResult == [op |-> "none", r |-> [tag |-> "none"]]

SessionInit ==
    /\ mode = "ExtendedPassive"
    /\ welcome_string = None
    /\ buffer = <<>>
    /\ ctrlIn = <<>>
    /\ ctrlOut = <<>>
    /\ op = "none"
    /\ args = NoArgs
    /\ pc = "start"
    /\ result = NoResult
    /\ conn = "none"
    /\ dataIn = <<>>
    /\ dataSrvClosed = FALSE
    /\ dataBuf = <<>>
    /\ dataOut = <<>>
    /\ ctrlRead = 0
    /\ socket = None

\* Client::get_welcome
get_welcome == welcome_string

FnIdle ==
    /\ fn = "none"
    /\ fnIn = [x |-> 0]
    /\ fnOut = [tag |-> "pending"]

Init == SessionInit /\ FnIdle

---------------------------------------------------------------------------
(* The steps of an operation. Each step is one blocking read, write or     *)
(* connect of the code, with the computation that follows it.              *)

WritePcs == {"neg_write", "cmd_write", "cmd2_write"}
ReadPcs == {"greet_read", "neg_read", "cmd_read", "cmd2_read", "compl_read"}

ReadPcOf(p) ==
    CASE p = "neg_write" -> "neg_read"
      [] p = "cmd_write" -> "cmd_read"
      [] p = "cmd2_write" -> "cmd2_read"

\* The operation goes on at p.
Goto(p) ==
    /\ pc' = p
    /\ UNCHANGED <<op, args, result, conn, dataIn, dataSrvClosed, dataBuf, dataOut,
                   socket>>

\* An operation returning while its data connection lives on (kept in the
\* session instead of in a local).
ReturnKeepingConnection(res) ==
    /\ pc' = IF op = "connect" /\ res.tag # "Ok" THEN "start" ELSE "idle"
    /\ op' = "none"
    /\ args' = NoArgs
    /\ result' = [op |-> op, r |-> res]
    /\ conn' = conn
    /\ dataIn' = <<>>
    /\ dataSrvClosed' = FALSE
    /\ dataBuf' = <<>>
    /\ dataOut' = <<>>
    /\ socket' = None

\* The operation op returns res to its caller: its locals, the data
\* connection among them, are dropped. A connect that fails returns no Client.
Return(res) ==
    /\ pc' = IF op = "connect" /\ res.tag # "Ok" THEN "start" ELSE "idle"
    /\ op' = "none"
    /\ args' = NoArgs
    /\ result' = [op |-> op, r |-> res]
    /\ conn' = IF conn = "open" THEN "closed" ELSE conn
    /\ dataIn' = <<>>
    /\ dataSrvClosed' = FALSE
    /\ dataBuf' = <<>>
    /\ dataOut' = <<>>
    /\ socket' = None

\* unimplemented!(), unwrap() on an Err, a slice or an index out of range.
Abort ==
    /\ pc' = "panicked"
    /\ UNCHANGED <<op, args, result, conn, dataIn, dataSrvClosed, dataBuf, dataOut,
                   socket>>

Start(o, a, p) ==
    /\ op' = o
    /\ args' = a
    /\ pc' = p
    /\ ctrlOut' = <<>>
    /\ result' = NoResult
    /\ conn' = "none"
    /\ ctrlRead' = 0
    /\ socket' = None
    /\ UNCHANGED <<mode, welcome_string, buffer, ctrlIn, dataIn, dataSrvClosed,
                   dataBuf, dataOut>>
    /\ UNCHANGED fnVars

\* Client::connect, connect_with_port, connect_tls, connect_tls_with_port
CallConnect ==
    /\ pc = "start"
    /\ \E tls \in BOOLEAN :
          Start("connect", [user |-> "u", password |-> "p", tls |-> tls], "tcp_connect")

\* connect calling login right after the Client struct is built, without
\* reading the greeting.
TcpConnectThenLogin ==
    /\ pc = "tcp_connect"
    /\ UNCHANGED <<ctrlOut, ctrlRead, fnVars>>
    /\ \/ /\ mode' = "ExtendedPassive"
          /\ welcome_string' = None
          /\ buffer' = <<>>
          /\ ctrlIn' = <<>>
          /\ Goto("cmd_write")
       \/ /\ \E e \in {"IoError"} \cup (IF args.tls THEN {"TlsError", "TlsHandshakeError"}
                                                  ELSE {}) : Return(Err(e))
          /\ UNCHANGED <<mode, welcome_string, buffer, ctrlIn>>

\* connect building the Client struct with mode: ClientMode::Passive.
TcpConnectPassive ==
    /\ pc = "tcp_connect"
    /\ UNCHANGED <<ctrlOut, ctrlRead, fnVars>>
    /\ \/ /\ mode' = "Passive"
          /\ welcome_string' = None
          /\ buffer' = <<>>
          /\ ctrlIn' = <<>>
          /\ Goto("greet_read")
       \/ /\ \E e \in {"IoError"} \cup (IF args.tls THEN {"TlsError", "TlsHandshakeError"}
                                                  ELSE {}) : Return(Err(e))
          /\ UNCHANGED <<mode, welcome_string, buffer, ctrlIn>>

\* TcpStream::connect (and the TLS handshake) of connect, then the Client
\* struct is built.
TcpConnect ==
    /\ pc = "tcp_connect"
    /\ UNCHANGED <<ctrlOut, ctrlRead, fnVars>>
    /\ \/ /\ mode' = "ExtendedPassive"
          /\ welcome_string' = None
          /\ buffer' = <<>>
          /\ ctrlIn' = <<>>
          /\ Goto("greet_read")
       \/ /\ \E e \in {"IoError"} \cup (IF args.tls THEN {"TlsError", "TlsHandshakeError"}
                                                  ELSE {}) : Return(Err(e))
          /\ UNCHANGED <<mode, welcome_string, buffer, ctrlIn>>

\* sync::Client::set_mode
SetMode ==
    /\ pc = "idle"
    /\ \E m \in {"Passive", "ExtendedPassive", "Active"} : mode' = m
    /\ UNCHANGED <<welcome_string, buffer, ctrlIn, ctrlOut, op, args, pc, result, conn,
                   dataIn, dataSrvClosed, dataBuf, dataOut, ctrlRead,
                   socket, fnVars>>

\* logout, cwd, cdup, help, noop, status, remove_directory, make_directory,
\* pwd, site_parameters, system, delete_file
CallControl ==
    /\ pc = "idle"
    /\ \E o \in ControlOnly :
          IF Command(o).unary
          THEN \E p \in Paths : Start(o, [path |-> p], "cmd_write")
          ELSE Start(o, NoArgs, "cmd_write")

\* login, rename_file
CallTwoStep ==
    /\ pc = "idle"
    /\ \/ Start("login", [user |-> "u", password |-> "p"], "cmd_write")
       \/ \E p \in Paths :
             Start("rename_file", [path_from |-> p, path_to |-> "new"], "cmd_write")

\* list, list_names, retrieve_file, store, store_unique, append
CallTransfer ==
    /\ pc = "idle"
    /\ \/ \E o \in Downloads, p \in Paths : Start(o, [path |-> p], "get_conn")
       \/ \E o \in {"store", "append"}, p \in Paths, d \in Payloads :
             Start(o, [path |-> p, data |-> d], "get_conn")
       \/ \E d \in Payloads : Start("store_unique", [path |-> "-", data |-> d], "get_conn")

\* restart, abort, allocate
CallUnimplemented ==
    /\ pc = "idle"
    /\ \E o \in Unimplemented : Start(o, NoArgs, "panicked")

\* get_data_connection without the arm for Active: every mode negotiates.
GetDataConnectionAnyMode ==
    /\ pc = "get_conn"
    /\ Goto("neg_write")
    /\ UNCHANGED <<mode, welcome_string, buffer, ctrlIn, ctrlOut, ctrlRead,
                   fnVars>>

\* Client::read_reply
CallReadReply ==
    /\ pc = "idle"
    /\ Start("read_reply", NoArgs, "raw_read")

\* Client::get_data_connection: the match on the mode.
GetDataConnection ==
    /\ pc = "get_conn"
    /\ IF mode = "Active" THEN Abort ELSE Goto("neg_write")
    /\ UNCHANGED <<mode, welcome_string, buffer, ctrlIn, ctrlOut, ctrlRead,
                   fnVars>>

\* write_command and write_unary_command writing the line again when the
\* first write_all failed.
WriteCommandRetry ==
    /\ pc \in WritePcs
    /\ UNCHANGED <<mode, welcome_string, buffer, ctrlIn, ctrlRead, fnVars>>
    /\ LET line == CommandLine(CommandAt(pc, op, mode), ArgAt(pc, op, args))
       IN  \/ /\ ctrlOut' = Append(ctrlOut, line)
              /\ Goto(ReadPcOf(pc))
           \/ /\ ctrlOut' = ctrlOut \o <<line, line>>
              /\ Goto(ReadPcOf(pc))

\* Client::write_command, write_unary_command
WriteCommand ==
    /\ pc \in WritePcs
    /\ UNCHANGED <<mode, welcome_string, buffer, ctrlIn, ctrlRead, fnVars>>
    /\ \/ /\ ctrlOut' = Append(ctrlOut,
                               CommandLine(CommandAt(pc, op, mode), ArgAt(pc, op, args)))
          /\ Goto(ReadPcOf(pc))
       \/ /\ Return(IoError)
          /\ UNCHANGED ctrlOut

\* list_names returning the text as list does, without text.lines().
ValueUnsplit(o, response, bytes) ==
    IF IsUtf8(bytes) THEN Ok(bytes) ELSE Err("SerializationFailed")

\* The listings converted with String::from_utf8_lossy, which never fails.
ValueLossy(o, response, bytes) ==
    CASE o \in {"status", "pwd", "site_parameters", "system", "store_unique"} ->
            Ok(response.message)
      [] o \in {"retrieve_file", "list"} -> Ok(bytes)
      [] o = "list_names" -> Ok(Lines(bytes))
      [] OTHER -> Ok("unit")

\* The value an operation whose last reply was accepted returns.
Value(o, response, bytes) ==
    CASE o \in {"status", "pwd", "site_parameters", "system", "store_unique"} ->
            Ok(response.message)
      [] o = "retrieve_file" -> Ok(bytes)
      [] o = "list" -> IF IsUtf8(bytes) THEN Ok(bytes) ELSE Err("SerializationFailed")
      [] o = "list_names" ->
            IF IsUtf8(bytes) THEN Ok(Lines(bytes)) ELSE Err("SerializationFailed")
      [] OTHER -> Ok("unit")

\* What follows a reply that parse_reply_expecting accepted at pc.
Accepted(response) ==
    CASE pc = "greet_read" ->
            /\ welcome_string' = Some(response.message)
            /\ Goto("cmd_write")
      [] pc = "neg_read" ->
            /\ UNCHANGED welcome_string
            /\ \E peer \in {PeerAddr, Err("NotConnected")} :
                  LET decoded == IF mode = "Passive"
                                 THEN decode_passive_mode_ip(response.message)
                                 ELSE decode_extended_passive_mode_socket(
                                          response.message, peer)
                  IN  CASE decoded.tag = "Panic" -> Abort
                        [] decoded.tag = "Err" -> Return(decoded)
                        [] OTHER ->
                              /\ socket' = [ip |-> decoded.ip, port |-> decoded.port]
                              /\ pc' = "neg_connect"
                              /\ UNCHANGED <<op, args, result, conn, dataIn,
                                             dataSrvClosed, dataBuf, dataOut>>
      [] pc = "cmd_read" ->
            /\ UNCHANGED welcome_string
            /\ CASE op \in TwoStep \cup {"connect"} -> Goto("cmd2_write")
                 [] op \in Downloads -> Goto("data_read")
                 [] op \in Uploads -> Goto("data_write")
                 [] OTHER -> Return(Value(op, response, dataBuf))
      [] pc \in {"cmd2_read", "compl_read"} ->
            /\ UNCHANGED welcome_string
            /\ Return(Value(op, response, dataBuf))

\* BufRead::read_line: the next line of the stream is appended to buf.
read_line(buf, stream) == buf \o Head(stream)

\* The stream after a read that takes a whole reply: the lines whose code is
\* followed by "-" and the line that ends the reply.
RECURSIVE StreamAfterReply(_)
StreamAfterReply(stream) ==
    IF stream = <<>> THEN <<>>
    ELSE IF Len(Head(stream)) >= 4 /\ Head(stream)[4] = "-"
         THEN StreamAfterReply(Tail(stream))
         ELSE Tail(stream)

\* The stream after read_line: one line has been taken from it.
StreamAfterRead(stream) == Tail(stream)

\* The buffer after read_line without the clear before it.
BufferNotCleared(buf, stream) == read_line(buf, stream)

\* The buffer after self.buffer.clear() and read_line of parse_reply and of
\* read_reply.
BufferAfterRead(buf, stream) == read_line(<<>>, stream)

\* parse_reply_expecting replaced by parse_reply: the reply is parsed and
\* the operation goes on, whatever its status.
ReadReplyUnchecked ==
    /\ pc \in ReadPcs
    /\ ctrlIn # <<>>
    /\ buffer' = Head(ctrlIn)
    /\ ctrlIn' = Tail(ctrlIn)
    /\ ctrlRead' = ctrlRead + 1
    /\ UNCHANGED <<mode, ctrlOut, fnVars>>
    /\ LET parsed == ServerResponseParse(Head(ctrlIn))
       IN  CASE parsed.tag = "Panic" -> Abort /\ UNCHANGED welcome_string
             [] OTHER -> Accepted([message |-> parsed.message,
                                   status_code |-> parsed.status_code])

\* Client::parse_reply_expecting, when read_line returns a line.
ReadReply ==
    /\ pc \in ReadPcs
    /\ ctrlIn # <<>>
    /\ buffer' = BufferAfterRead(buffer, ctrlIn)
    /\ ctrlIn' = StreamAfterRead(ctrlIn)
    /\ ctrlRead' = ctrlRead + 1
    /\ UNCHANGED <<mode, ctrlOut, fnVars>>
    /\ LET reply == ParseReplyExpecting(BufferAfterRead(buffer, ctrlIn),
                                        ValidAt(pc, op, mode))
       IN  CASE reply.tag = "Panic" -> Abort /\ UNCHANGED welcome_string
             [] reply.tag = "Err" ->
                   Return([tag |-> "Err", kind |-> reply.kind, summary |-> reply.summary])
                   /\ UNCHANGED welcome_string
             [] OTHER -> Accepted(reply.response)

\* Client::parse_reply, when the server has closed the control connection:
\* read_line returns Ok(0), the buffer stays empty and the parse panics.
ReadEof ==
    /\ pc \in ReadPcs
    /\ ctrlIn = <<>>
    /\ buffer' = <<>>
    /\ UNCHANGED <<mode, welcome_string, ctrlIn, ctrlOut, ctrlRead,
                   fnVars>>
    /\ IF ServerResponseParse(<<>>).tag = "Panic" THEN Abort ELSE Return(IoError)

\* Client::parse_reply, when read_line fails.
ReadError ==
    /\ pc \in ReadPcs
    /\ buffer' = <<>>
    /\ UNCHANGED <<mode, welcome_string, ctrlIn, ctrlOut, ctrlRead,
                   fnVars>>
    /\ Return(IoError)

\* The connect of the data connection with its error ignored: the
\* operation goes on without a data connection.
DataConnectUnchecked ==
    /\ pc = "neg_connect"
    /\ UNCHANGED <<mode, welcome_string, buffer, ctrlIn, ctrlOut, ctrlRead,
                   fnVars>>
    /\ \/ /\ conn' = "open"
          /\ pc' = "cmd_write"
          /\ UNCHANGED <<op, args, result, dataIn, dataSrvClosed, dataBuf, dataOut,
                         socket>>
       \/ Goto("cmd_write")

\* Client::read_reply: the line is returned as it was read; at the end of
\* the stream read_line returns Ok(0) and the empty string is returned.
ReadRawReply ==
    /\ pc = "raw_read"
    /\ UNCHANGED <<mode, welcome_string, ctrlOut, fnVars>>
    /\ \/ /\ ctrlIn # <<>>
          /\ buffer' = BufferAfterRead(buffer, ctrlIn)
          /\ ctrlIn' = StreamAfterRead(ctrlIn)
          /\ ctrlRead' = ctrlRead + 1
          /\ Return(Ok(BufferAfterRead(buffer, ctrlIn)))
       \/ /\ ctrlIn = <<>>
          /\ buffer' = <<>>
          /\ UNCHANGED <<ctrlIn, ctrlRead>>
          /\ Return(Ok(<<>>))
       \/ /\ buffer' = <<>>
          /\ UNCHANGED <<ctrlIn, ctrlRead>>
          /\ Return(IoError)

\* TcpStream::connect(socket) of passive_mode_connection and of
\* extended_passive_mode_connection.
DataConnect ==
    /\ pc = "neg_connect"
    /\ UNCHANGED <<mode, welcome_string, buffer, ctrlIn, ctrlOut, ctrlRead,
                   fnVars>>
    /\ \/ /\ conn' = "open"
          /\ pc' = "cmd_write"
          /\ UNCHANGED <<op, args, result, dataIn, dataSrvClosed, dataBuf, dataOut,
                         socket>>
       \/ Return(IoError)

\* read_to_end replaced by a single read: the operation goes on after the
\* first bytes, whatever is left on the data connection.
DataReadOnce ==
    /\ pc = "data_read"
    /\ UNCHANGED <<mode, welcome_string, buffer, ctrlIn, ctrlOut, ctrlRead,
                   fnVars>>
    /\ \/ /\ \E n \in 1..Len(dataIn) :
                /\ dataBuf' = dataBuf \o SubSeq(dataIn, 1, n)
                /\ dataIn' = SubSeq(dataIn, n + 1, Len(dataIn))
          /\ pc' = "compl_read"
          /\ UNCHANGED <<op, args, result, conn, dataSrvClosed, dataOut, socket>>
       \/ /\ dataIn = <<>>
          /\ dataSrvClosed
          /\ Goto("compl_read")
       \/ Return(IoError)

\* read_to_end in a block that scopes conn, as in store: the data
\* connection is dropped at the end of the stream.
DataReadScoped ==
    /\ pc = "data_read"
    /\ UNCHANGED <<mode, welcome_string, buffer, ctrlIn, ctrlOut, ctrlRead,
                   fnVars>>
    /\ \/ /\ \E n \in 1..Len(dataIn) :
                /\ dataBuf' = dataBuf \o SubSeq(dataIn, 1, n)
                /\ dataIn' = SubSeq(dataIn, n + 1, Len(dataIn))
          /\ UNCHANGED <<pc, op, args, result, conn, dataSrvClosed, dataOut, socket>>
       \/ /\ dataIn = <<>>
          /\ dataSrvClosed
          /\ pc' = "compl_read"
          /\ conn' = "closed"
          /\ UNCHANGED <<op, args, result, dataIn, dataSrvClosed, dataBuf, dataOut,
                         socket>>
       \/ Return(IoError)

\* A download that returns its bytes at the end of the data stream, without
\* reading the completion reply.
DataReadNoCompletion ==
    /\ pc = "data_read"
    /\ UNCHANGED <<mode, welcome_string, buffer, ctrlIn, ctrlOut, ctrlRead,
                   fnVars>>
    /\ \/ /\ \E n \in 1..Len(dataIn) :
                /\ dataBuf' = dataBuf \o SubSeq(dataIn, 1, n)
                /\ dataIn' = SubSeq(dataIn, n + 1, Len(dataIn))
          /\ UNCHANGED <<pc, op, args, result, conn, dataSrvClosed, dataOut, socket>>
       \/ /\ dataIn = <<>>
          /\ dataSrvClosed
          /\ Return(Ok(dataBuf))
       \/ Return(IoError)

\* conn.read_to_end(&mut buffer): one read of the loop. It takes some of the
\* bytes that arrived, or returns 0 at the end of the stream, which ends the
\* loop; an error ends the operation.
DataRead ==
    /\ pc = "data_read"
    /\ UNCHANGED <<mode, welcome_string, buffer, ctrlIn, ctrlOut, ctrlRead,
                   fnVars>>
    /\ \/ /\ \E n \in 1..Len(dataIn) :
                /\ dataBuf' = dataBuf \o SubSeq(dataIn, 1, n)
                /\ dataIn' = SubSeq(dataIn, n + 1, Len(dataIn))
          /\ UNCHANGED <<pc, op, args, result, conn, dataSrvClosed, dataOut, socket>>
       \/ /\ dataIn = <<>>
          /\ dataSrvClosed
          /\ Goto("compl_read")
       \/ Return(IoError)

\* write_all replaced by a single write: the operation goes on after the
\* first bytes were written, whatever is left of the payload.
DataWriteOnce ==
    /\ pc = "data_write"
    /\ UNCHANGED <<mode, welcome_string, buffer, ctrlIn, ctrlOut, ctrlRead,
                   fnVars>>
    /\ \/ /\ dataOut = args.data
          /\ Goto("data_drop")
       \/ /\ \E n \in 1..(Len(args.data) - Len(dataOut)) :
                /\ dataOut' = SubSeq(args.data, 1, Len(dataOut) + n)
                /\ pc' = "data_drop"
          /\ UNCHANGED <<op, args, result, conn, dataIn, dataSrvClosed, dataBuf,
                         socket>>
       \/ Return(IoError)

\* conn.get_mut().write_all(data): one write of the loop, which ends when
\* nothing is left to write; an error ends the operation.
DataWrite ==
    /\ pc = "data_write"
    /\ UNCHANGED <<mode, welcome_string, buffer, ctrlIn, ctrlOut, ctrlRead,
                   fnVars>>
    /\ \/ /\ dataOut = args.data
          /\ Goto("data_drop")
       \/ /\ \E n \in 1..(Len(args.data) - Len(dataOut)) :
                /\ dataOut' = SubSeq(args.data, 1, Len(dataOut) + n)
                /\ pc' = IF Len(dataOut) + n = Len(args.data) THEN "data_drop" ELSE pc
          /\ UNCHANGED <<op, args, result, conn, dataIn, dataSrvClosed, dataBuf,
                         socket>>
       \/ Return(IoError)

\* The end of the block that scopes conn in store, store_unique and append:
\* the data connection is dropped.
DataDrop ==
    /\ pc = "data_drop"
    /\ conn' = "closed"
    /\ pc' = "compl_read"
    /\ UNCHANGED <<mode, welcome_string, buffer, ctrlIn, ctrlOut, op, args, result,
                   dataIn, dataSrvClosed, dataBuf, dataOut, ctrlRead,
                   socket, fnVars>>

---------------------------------------------------------------------------
(* The server                                                              *)

\* The server sends a reply line on the control connection.
ServerReply ==
    /\ pc \notin {"start", "tcp_connect", "panicked"}
    /\ Len(ctrlIn) < MaxQueue
    /\ \E line \in ReplyLines : ctrlIn' = Append(ctrlIn, line)
    /\ UNCHANGED <<mode, welcome_string, buffer, ctrlOut, op, args, pc, result, conn,
                   dataIn, dataSrvClosed, dataBuf, dataOut, ctrlRead,
                   socket, fnVars>>

\* The server sends a byte on the data connection of a download (what it
\* sends on the data connection of an upload is never read).
ServerData ==
    /\ pc # "panicked"
    /\ op \in Downloads
    /\ conn = "open"
    /\ ~dataSrvClosed
    /\ Len(dataIn) + Len(dataBuf) < MaxData
    /\ \E b \in DataBytes : dataIn' = Append(dataIn, b)
    /\ UNCHANGED <<mode, welcome_string, buffer, ctrlIn, ctrlOut, op, args, pc, result,
                   conn, dataSrvClosed, dataBuf, dataOut, ctrlRead,
                   socket, fnVars>>

\* The server closes its end of the data connection of a download.
ServerCloseData ==
    /\ pc # "panicked"
    /\ op \in Downloads
    /\ conn = "open"
    /\ ~dataSrvClosed
    /\ dataSrvClosed' = TRUE
    /\ UNCHANGED <<mode, welcome_string, buffer, ctrlIn, ctrlOut, op, args, pc, result,
                   conn, dataIn, dataBuf, dataOut, ctrlRead,
                   socket, fnVars>>

Next ==
    \/ CallConnect
    \/ TcpConnect
    \/ SetMode
    \/ CallControl
    \/ CallTwoStep
    \/ CallTransfer
    \/ CallUnimplemented
    \/ GetDataConnection
    \/ WriteCommand
    \/ ReadReply
    \/ ReadEof
    \/ ReadError
    \/ CallReadReply
    \/ ReadRawReply
    \/ DataConnect
    \/ DataRead
    \/ DataWrite
    \/ DataDrop
    \/ ServerReply
    \/ ServerData
    \/ ServerCloseData

Spec == Init /\ [][Next]_vars

\* The sessions of the core Client, client.rs, which has no set_mode.
NextCore ==
    \/ CallConnect
    \/ TcpConnect
    \/ CallControl
    \/ CallTwoStep
    \/ CallTransfer
    \/ CallUnimplemented
    \/ GetDataConnection
    \/ WriteCommand
    \/ ReadReply
    \/ ReadEof
    \/ ReadError
    \/ CallReadReply
    \/ ReadRawReply
    \/ DataConnect
    \/ DataRead
    \/ DataWrite
    \/ DataDrop
    \/ ServerReply
    \/ ServerData
    \/ ServerCloseData

SpecCore == Init /\ [][NextCore]_vars

---------------------------------------------------------------------------
(* StatusCodeKind::from, StatusCode::is_valid and StatusCode::is_failure   *)
(* on every u16                                                            *)

InitStatus ==
    /\ SessionInit
    /\ fn = "status_code"
    /\ fnIn \in [code : 0..U16Max]
    /\ fnOut = [tag |-> "pending"]

\* The StatusCode of a code, as StatusCode::parse builds it.
StatusCodeOf(code) == [kind |-> StatusCodeKindFrom(code), code |-> code]

CallFrom ==
    /\ fn = "status_code" /\ fnOut.tag = "pending"
    /\ fnOut' = [tag |-> "from", kind |-> StatusCodeKindFrom(fnIn.code)]
    /\ UNCHANGED <<fn, fnIn, sessionVars>>

CallIsValid ==
    /\ fn = "status_code" /\ fnOut.tag = "pending"
    /\ fnOut' = [tag |-> "is_valid", value |-> is_valid(StatusCodeOf(fnIn.code))]
    /\ UNCHANGED <<fn, fnIn, sessionVars>>

CallIsFailure ==
    /\ fn = "status_code" /\ fnOut.tag = "pending"
    /\ fnOut' = [tag |-> "is_failure", value |-> is_failure(StatusCodeOf(fnIn.code))]
    /\ UNCHANGED <<fn, fnIn, sessionVars>>

CallIsFailureStatus ==
    /\ fn = "status_code" /\ fnOut.tag = "pending"
    /\ fnOut' = [tag |-> "is_failure_status",
                 value |-> is_failure_status([message |-> <<>>,
                                              status_code |-> StatusCodeOf(fnIn.code)])]
    /\ UNCHANGED <<fn, fnIn, sessionVars>>

NextStatus == CallFrom \/ CallIsValid \/ CallIsFailure \/ CallIsFailureStatus

SpecStatus == InitStatus /\ [][NextStatus]_vars

---------------------------------------------------------------------------
(* ServerResponse::parse and Client::parse_reply_expecting on reply lines  *)

\* What follows the first three characters of a line.
ReplyTails ==
    {<<>>,
     <<" ", "o", "k", CR, LF>>,
     <<"-", "a", " ", "b", " ", CR, LF>>}

\* Lines that do not start with three digits.
OtherHeads ==
    {<<>>, <<"2">>, <<"2", "2">>, <<"+", "1", "2">>, <<"-", "1", "2">>,
     <<"2", " ", "0">>, <<"a", "b", "1">>}

\* The sets of kinds the operations of Client pass as valid_statuses, and two
\* more a caller of the public function may pass.
ValidSets ==
    {{"ReadyForNewUser"}, {"PasswordRequired"}, {"UserLoggedIn"},
     {"ClosingControlConnection"}, {"RequestFileActionCompleted"},
     {"SystemStatus", "HelpMessage"}, {"Ok"}, {"SystemStatus"},
     {"TransferStarted", "TransferAboutToStart"}, {"RequestActionCompleted"},
     {"RequestActionCompleted", "RequestFileActionCompleted"},
     {"RequestActionPending"}, {"PathCreated"}, {"Ok", "FeatureNotImplemented"},
     {"NameSystemType"}, {"EnteredExtendedPassiveMode"}, {"EnteredPassiveMode"},
     {"RequestActionDenied", "Unknown"}, {}}

InitReply ==
    /\ SessionInit
    /\ fn = "reply"
    /\ \E tail \in ReplyTails :
          \/ \E i \in 0..9, j \in 0..9, k \in 0..9 :
                fnIn = [line |-> <<DigitChars[i + 1], DigitChars[j + 1], DigitChars[k + 1]>>
                                    \o tail,
                        digits |-> <<i, j, k>>, tail |-> tail]
          \/ \E head \in OtherHeads :
                fnIn = [line |-> head \o tail, digits |-> <<>>, tail |-> tail]
    /\ fnOut = [tag |-> "pending"]

CallStatusCodeParse ==
    /\ fn = "reply" /\ fnOut.tag = "pending"
    /\ fnOut' = [tag |-> "status_code_parse", r |-> StatusCodeParse(fnIn.line)]
    /\ UNCHANGED <<fn, fnIn, sessionVars>>

CallServerResponseParse ==
    /\ fn = "reply" /\ fnOut.tag = "pending"
    /\ fnOut' = [tag |-> "parse", r |-> ServerResponseParse(fnIn.line)]
    /\ UNCHANGED <<fn, fnIn, sessionVars>>

CallParseReplyExpecting ==
    /\ fn = "reply" /\ fnOut.tag = "pending"
    /\ \E valid \in ValidSets :
          fnOut' = [tag |-> "expecting", valid |-> valid,
                    r |-> ParseReplyExpecting(fnIn.line, valid)]
    /\ UNCHANGED <<fn, fnIn, sessionVars>>

NextReply == CallStatusCodeParse \/ CallServerResponseParse \/ CallParseReplyExpecting

SpecReply == InitReply /\ [][NextReply]_vars

---------------------------------------------------------------------------
(* Client::decode_passive_mode_ip on PASV reply messages                   *)

MaxTokens == 6   \* comma-separated tokens in a PASV reply message

\* A token with the byte it stands for (-1: it is no byte).
PasvTokens ==
    {[text |-> <<"0">>, value |-> 0],
     [text |-> <<"1", "9">>, value |-> 19],
     [text |-> <<"2", "5", "5">>, value |-> 255],
     [text |-> <<"2", "5", "6">>, value |-> -1],
     [text |-> <<"x">>, value |-> -1]}

\* The tokens of "227 Entering Passive Mode (127,0,0,1,19,136)."
ExampleTokens ==
    <<[text |-> <<"1", "2", "7">>, value |-> 127], [text |-> <<"0">>, value |-> 0],
      [text |-> <<"0">>, value |-> 0], [text |-> <<"1">>, value |-> 1],
      [text |-> <<"1", "9">>, value |-> 19], [text |-> <<"1", "3", "6">>, value |-> 136]>>

\* The same tokens with one that is no number after the first, and with one
\* out of the range of a byte.
ExampleTokensWithInvalid ==
    {<<ExampleTokens[1], [text |-> t, value |-> -1]>> \o Tail(ExampleTokens) :
        t \in {<<"x">>, <<"2", "5", "6">>}}

\* How the parentheses stand in the message.
PasvShapes == {"both", "no_open", "no_close", "neither", "reversed"}

RECURSIVE Join(_)
Join(tokens) ==
    IF tokens = <<>> THEN <<>>
    ELSE IF Len(tokens) = 1 THEN tokens[1].text
    ELSE tokens[1].text \o <<",">> \o Join(Tail(tokens))

PasvMessage(shape, tokens) ==
    LET open == CASE shape \in {"both", "no_close"} -> <<"(">>
                  [] shape = "reversed" -> <<")">>
                  [] OTHER -> <<>>
        close == CASE shape \in {"both", "no_open"} -> <<")">>
                   [] shape = "reversed" -> <<"(">>
                   [] OTHER -> <<>>
    IN  <<"O", "k", " ">> \o open \o Join(tokens) \o close \o <<".">>

InitPasv ==
    /\ SessionInit
    /\ fn = "pasv"
    /\ \E shape \in PasvShapes :
          \E tokens \in {ExampleTokens} \cup ExampleTokensWithInvalid
                          \cup UNION {[1..n -> PasvTokens] : n \in 0..MaxTokens} :
             fnIn = [shape |-> shape, tokens |-> tokens,
                     message |-> PasvMessage(shape, tokens)]
    /\ fnOut = [tag |-> "pending"]

CallDecodePassive ==
    /\ fn = "pasv" /\ fnOut.tag = "pending"
    /\ fnOut' = [tag |-> "pasv", r |-> decode_passive_mode_ip(fnIn.message)]
    /\ UNCHANGED <<fn, fnIn, sessionVars>>

NextPasv == CallDecodePassive

SpecPasv == InitPasv /\ [][NextPasv]_vars

---------------------------------------------------------------------------
(* Client::decode_extended_passive_mode_socket on EPSV reply messages      *)

EpsvPres == {<<>>, <<"(">>, <<"a", "|", "b", " ", "(">>, <<"(", "|">>}
EpsvDelims == {<<"|", "|", "|">>, <<"|", "|">>, <<>>}
\* A port text with the port it stands for (-1: it is no port).
EpsvPorts ==
    {[text |-> <<"6", "4", "4", "6">>, value |-> 6446],
     [text |-> <<"0">>, value |-> 0],
     [text |-> <<"0", "0", "2", "1">>, value |-> 21],
     [text |-> <<"6", "5", "5", "3", "5">>, value |-> 65535],
     [text |-> <<"6", "5", "5", "3", "6">>, value |-> -1],
     [text |-> <<"6", "4", "x">>, value |-> -1],
     [text |-> <<>>, value |-> -1]}
EpsvCloses == {<<"|">>, <<>>}
EpsvPosts == {<<>>, <<")">>, <<")", ".">>}
\* ClientStream::peer_addr on the control connection.
Peers ==
    {[tag |-> "Ok", ip |-> "203.0.113.5"], [tag |-> "Ok", ip |-> "2001:db8::7"],
     Err("NotConnected")}

InitEpsv ==
    /\ SessionInit
    /\ fn = "epsv"
    /\ \E pre \in EpsvPres, delim \in EpsvDelims, port \in EpsvPorts,
          close \in EpsvCloses, post \in EpsvPosts, peer \in Peers :
          fnIn = [pre |-> pre, delim |-> delim, port |-> port, close |-> close,
                  post |-> post, peer |-> peer,
                  message |-> pre \o delim \o port.text \o close \o post]
    /\ fnOut = [tag |-> "pending"]

CallDecodeExtended ==
    /\ fn = "epsv" /\ fnOut.tag = "pending"
    /\ fnOut' = [tag |-> "epsv",
                 r |-> decode_extended_passive_mode_socket(fnIn.message, fnIn.peer)]
    /\ UNCHANGED <<fn, fnIn, sessionVars>>

NextEpsv == CallDecodeExtended

SpecEpsv == InitEpsv /\ [][NextEpsv]_vars

---------------------------------------------------------------------------
(* The values list and list_names make of the bytes of the data connection *)

MaxText == 4   \* bytes of a text on the data connection

TextBytes == {"a", CR, LF, "xFF"}

\* The listing of "a" and "b", each line ended by CR LF.
ExampleListing == <<"a", CR, LF, "b", CR, LF>>

InitListing ==
    /\ SessionInit
    /\ fn = "listing"
    /\ \E text \in {ExampleListing} \cup UNION {[1..n -> TextBytes] : n \in 0..MaxText} :
          fnIn = [text |-> text]
    /\ fnOut = [tag |-> "pending"]

\* The end of list, after the completion reply was accepted.
CallListValue ==
    /\ fn = "listing" /\ fnOut.tag = "pending"
    /\ fnOut' = [tag |-> "list",
                 r |-> Value("list", [message |-> <<>>], fnIn.text)]
    /\ UNCHANGED <<fn, fnIn, sessionVars>>

\* The end of list_names, after the completion reply was accepted.
CallListNamesValue ==
    /\ fn = "listing" /\ fnOut.tag = "pending"
    /\ fnOut' = [tag |-> "list_names",
                 r |-> Value("list_names", [message |-> <<>>], fnIn.text)]
    /\ UNCHANGED <<fn, fnIn, sessionVars>>

NextListing == CallListValue \/ CallListNamesValue

SpecListing == InitListing /\ [][NextListing]_vars

---------------------------------------------------------------------------
(* A session against a server that sends a scripted sequence of replies    *)

\* "220 ready"
Reply220 ==
    <<"2", "2", "0", " ", "r", "e", "a", "d", "y", CR, LF>>

\* "331 need password"
Reply331 ==
    <<"3", "3", "1", " ", "n", "e", "e", "d", " ", "p", "a", "s",
      "s", "w", "o", "r", "d", CR, LF>>

\* "230 logged in"
Reply230 ==
    <<"2", "3", "0", " ", "l", "o", "g", "g", "e", "d", " ", "i",
      "n", CR, LF>>

\* "227 ok (127,0,0,1,19,136)"
Reply227 ==
    <<"2", "2", "7", " ", "o", "k", " ", "(", "1", "2", "7", ",",
      "0", ",", "0", ",", "1", ",", "1", "9", ",", "1", "3", "6",
      ")", CR, LF>>

\* "150 ok"
Reply150 ==
    <<"1", "5", "0", " ", "o", "k", CR, LF>>

\* "226 done"
Reply226 ==
    <<"2", "2", "6", " ", "d", "o", "n", "e", CR, LF>>

\* "a.txt" CR LF
DataLine1 ==
    <<"a", ".", "t", "x", "t", CR, LF>>

\* "b.txt" CR LF
DataLine2 ==
    <<"b", ".", "t", "x", "t", CR, LF>>

\* The replies of the server in the order it sends them on one control
\* connection: the greeting, the replies to USER and PASS, the reply to the
\* negotiation command, the preliminary reply to NLST and the completion
\* reply.
ScenarioScript == <<Reply220, Reply331, Reply230, Reply227, Reply150, Reply226>>

\* The same without the preliminary reply to NLST.
ScenarioScriptNoPreliminary == <<Reply220, Reply331, Reply230, Reply227, Reply226>>

\* What the server sends on the data connection, piece by piece.
ScenarioData == <<DataLine1, DataLine2>>

InitScenario ==
    /\ SessionInit
    /\ fn = "scenario"
    /\ fnIn \in {[script |-> ScenarioScript], [script |-> ScenarioScriptNoPreliminary]}
    /\ fnOut = [tag |-> "pending"]

\* Client::list_names("/") called on the session connect has just returned
\* (after set_mode or not).
CallListNames ==
    /\ pc = "idle"
    /\ result.op = "connect"
    /\ Start("list_names", [path |-> "/"], "get_conn")

\* The replies the server has sent on the control connection: three to
\* connect, then those the running operation has read.
ScriptSent == (IF op = "connect" THEN 0 ELSE 3) + ctrlRead

\* The server sends its next reply when the client waits for one.
ScriptReply ==
    /\ pc \in ReadPcs
    /\ ctrlIn = <<>>
    /\ ScriptSent < Len(fnIn.script)
    /\ ctrlIn' = <<fnIn.script[ScriptSent + 1]>>
    /\ UNCHANGED <<mode, welcome_string, buffer, ctrlOut, op, args, pc, result, conn,
                   dataIn, dataSrvClosed, dataBuf, dataOut, ctrlRead, socket, fnVars>>

\* The bytes of the first pieces of ScenarioData.
RECURSIVE DataPrefix(_)
DataPrefix(n) ==
    IF n = 0 THEN <<>> ELSE DataPrefix(n - 1) \o ScenarioData[n]

\* The server sends the next piece on the data connection.
ScriptData ==
    /\ conn = "open"
    /\ ~dataSrvClosed
    /\ \E n \in 1..Len(ScenarioData) :
          /\ dataBuf \o dataIn = DataPrefix(n - 1)
          /\ dataIn' = dataIn \o ScenarioData[n]
    /\ UNCHANGED <<mode, welcome_string, buffer, ctrlIn, ctrlOut, op, args, pc, result,
                   conn, dataSrvClosed, dataBuf, dataOut, ctrlRead, socket, fnVars>>

\* The server has sent everything and closes the data connection.
ScriptCloseData ==
    /\ conn = "open"
    /\ ~dataSrvClosed
    /\ dataBuf \o dataIn = DataPrefix(Len(ScenarioData))
    /\ dataSrvClosed' = TRUE
    /\ UNCHANGED <<mode, welcome_string, buffer, ctrlIn, ctrlOut, op, args, pc, result,
                   conn, dataIn, dataBuf, dataOut, ctrlRead, socket, fnVars>>

NextScenario ==
    \/ CallConnect
    \/ TcpConnect
    \/ SetMode
    \/ CallListNames
    \/ GetDataConnection
    \/ WriteCommand
    \/ ReadReply
    \/ DataConnect
    \/ DataRead
    \/ ScriptReply
    \/ ScriptData
    \/ ScriptCloseData

SpecScenario == InitScenario /\ [][NextScenario]_vars

---------------------------------------------------------------------------
(* A session against a server that answers STAT with a reply of several    *)
(* lines                                                                   *)

MaxLines == 3   \* lines of the reply to STAT

\* "220 hi"
Greeting == <<"2", "2", "0", " ", "h", "i", CR, LF>>

\* Line i of the reply to STAT that has n lines: "211-i" before the last
\* line, "211 end" for the last.
StatLine(i, n) ==
    IF i < n THEN <<"2", "1", "1", "-", DigitChars[i + 1], CR, LF>>
    ELSE <<"2", "1", "1", " ", "e", "n", "d", CR, LF>>

\* The lines the server sends in reply to a command, the reply to STAT
\* having n lines.
ReplyTo(cmd, n) ==
    CASE cmd = "USER" -> <<<<"3", "3", "1", " ", "p", "w", CR, LF>>>>
      [] cmd = "PASS" -> <<<<"2", "3", "0", " ", "i", "n", CR, LF>>>>
      [] cmd = "STAT" -> [i \in 1..n |-> StatLine(i, n)]
      [] cmd = "PWD" -> <<<<"2", "5", "7", " ", "/", CR, LF>>>>
      [] cmd = "SYST" -> <<<<"2", "1", "5", " ", "u", "x", CR, LF>>>>
      [] cmd = "NOOP" -> <<<<"2", "0", "0", " ", "o", "k", CR, LF>>>>

\* The operations the caller runs after connect, in this order.
MultilineCalls == <<"status", "pwd", "system", "noop">>

InitMultiline ==
    /\ SessionInit
    /\ fn = "multiline"
    /\ \E n \in 1..MaxLines : fnIn = [lines |-> n]
    /\ fnOut = [tag |-> "pending"]

\* The operation whose commands are the last ones written.
LastOperation == IF op = "none" THEN result.op ELSE op

\* How many of the commands in ctrlOut the server has answered.
Answered == IF fnOut.cur = LastOperation THEN fnOut.answered ELSE 0

\* The server accepts the connection and sends its greeting. It keeps the
\* count of the lines it has sent on the connection and the position of the
\* first line of its reply to STAT (0 before it has sent one).
ServerGreeting ==
    /\ pc = "greet_read"
    /\ ctrlIn = <<>>
    /\ ctrlIn' = <<Greeting>>
    /\ fnOut' = [tag |-> "server", cur |-> "connect", answered |-> 0,
                 sent |-> 1, statAt |-> 0]
    /\ UNCHANGED <<mode, welcome_string, buffer, ctrlOut, op, args, pc, result, conn,
                   dataIn, dataSrvClosed, dataBuf, dataOut, ctrlRead, socket, fn, fnIn>>

\* The server answers the next command it has received, with all the lines
\* of its reply.
ServerAnswer ==
    /\ pc \notin {"start", "tcp_connect", "panicked"}
    /\ fnOut.tag = "server"
    /\ Answered < Len(ctrlOut)
    /\ LET cmd == ctrlOut[Answered + 1].cmd
           reply == ReplyTo(cmd, fnIn.lines)
       IN  /\ ctrlIn' = ctrlIn \o reply
           /\ fnOut' = [tag |-> "server", cur |-> LastOperation,
                        answered |-> Answered + 1,
                        sent |-> fnOut.sent + Len(reply),
                        statAt |-> IF cmd = "STAT" THEN fnOut.sent + 1
                                   ELSE fnOut.statAt]
    /\ UNCHANGED <<mode, welcome_string, buffer, ctrlOut, op, args, pc, result, conn,
                   dataIn, dataSrvClosed, dataBuf, dataOut, ctrlRead, socket, fn, fnIn>>

\* The caller calls the operation that follows the one that has returned,
\* once the server has answered what was written.
CallNextOperation ==
    /\ pc = "idle"
    /\ fnOut.tag = "server"
    /\ Answered = Len(ctrlOut)
    /\ \E i \in 1..Len(MultilineCalls) :
          /\ result.op = (IF i = 1 THEN "connect" ELSE MultilineCalls[i - 1])
          /\ Start(MultilineCalls[i], NoArgs, "cmd_write")

NextMultiline ==
    \/ CallConnect
    \/ TcpConnect
    \/ CallNextOperation
    \/ WriteCommand
    \/ ReadReply
    \/ ServerGreeting
    \/ ServerAnswer

SpecMultiline == InitMultiline /\ [][NextMultiline]_vars

---------------------------------------------------------------------------
(* A session against a server that sends one line in reply to each command *)
(* and one more, the completion reply, for each transfer it has accepted   *)

MaxCalls == 2   \* operations the caller runs after connect

\* The operations the caller chooses from: two downloads, an upload, an
\* operation of two commands and one of a single command.
SyncOperations == {"list", "retrieve_file", "store", "rename_file", "pwd"}

\* The sequences of at most n distinct operations.
SyncCalls(n) ==
    {calls \in UNION {[1..k -> SyncOperations] : k \in 0..n} :
        \A i, j \in 1..Len(calls) : i # j => calls[i] # calls[j]}

\* The arguments the caller passes to o.
SyncArgs(o) ==
    CASE o \in Downloads -> [path |-> "/"]
      [] o = "store" -> [path |-> "/", data |-> <<"a">>]
      [] o = "rename_file" -> [path_from |-> "/", path_to |-> "new"]
      [] OTHER -> NoArgs

\* The verbs of the transfer commands.
TransferVerbs == {Command(o).cmd : o \in Transfers}

InitSync ==
    /\ SessionInit
    /\ fn = "sync"
    /\ \E calls \in SyncCalls(MaxCalls) : fnIn = [calls |-> calls]
    /\ fnOut = [tag |-> "pending"]

\* The server accepts the connection and sends its greeting. It keeps the
\* log of the lines it has sent on the connection, each as the operation and
\* the command it answers (i, counted within the operation), and whether it
\* owes a completion reply.
SyncGreeting ==
    /\ pc = "greet_read"
    /\ ctrlIn = <<>>
    /\ ctrlIn' = <<Greeting>>
    /\ fnOut' = [tag |-> "server", cur |-> "connect", answered |-> 0, owed |-> FALSE,
                 log |-> <<[o |-> "connect", what |-> "greeting", i |-> 0]>>]
    /\ UNCHANGED <<mode, welcome_string, buffer, ctrlOut, op, args, pc, result, conn,
                   dataIn, dataSrvClosed, dataBuf, dataOut, ctrlRead, socket, fn, fnIn>>

\* The server answers the next command it has received with one line. It
\* owes a completion reply when the command is a transfer command that it
\* accepts with 125 or 150; when it answers a transfer command with another
\* positive reply it may send a further reply or not.
SyncAnswer ==
    /\ pc \notin {"start", "tcp_connect", "panicked"}
    /\ fnOut.tag = "server"
    /\ ~fnOut.owed
    /\ Answered < Len(ctrlOut)
    /\ \E line \in ReplyLines :
          LET cmd == ctrlOut[Answered + 1].cmd
              code == StatusCodeParse(line)
              owes == IF cmd \notin TransferVerbs THEN {FALSE}
                      ELSE IF code.kind \in {"TransferStarted", "TransferAboutToStart"}
                      THEN {TRUE}
                      ELSE IF is_valid(code) THEN BOOLEAN
                      ELSE {FALSE}
          IN  \E owed \in owes :
                 /\ ctrlIn' = Append(ctrlIn, line)
                 /\ fnOut' = [tag |-> "server", cur |-> LastOperation,
                              answered |-> Answered + 1, owed |-> owed,
                              log |-> Append(fnOut.log,
                                             [o |-> LastOperation, what |-> "reply",
                                              i |-> Answered + 1])]
    /\ UNCHANGED <<mode, welcome_string, buffer, ctrlOut, op, args, pc, result, conn,
                   dataIn, dataSrvClosed, dataBuf, dataOut, ctrlRead, socket, fn, fnIn>>

\* The server sends the completion reply it owes.
SyncCompletion ==
    /\ pc # "panicked"
    /\ fnOut.tag = "server"
    /\ fnOut.owed
    /\ \E line \in ReplyLines :
          /\ ctrlIn' = Append(ctrlIn, line)
          /\ fnOut' = [fnOut EXCEPT !.owed = FALSE,
                                    !.log = Append(@, [o |-> fnOut.cur,
                                                       what |-> "completion",
                                                       i |-> fnOut.answered])]
    /\ UNCHANGED <<mode, welcome_string, buffer, ctrlOut, op, args, pc, result, conn,
                   dataIn, dataSrvClosed, dataBuf, dataOut, ctrlRead, socket, fn, fnIn>>

\* The operation returned a value or a typed error other than an I/O error.
TypedReturn(res) ==
    \/ res.tag = "Ok"
    \/ res.tag = "Err" /\ res.kind # "IoError"

\* The caller calls the operation that follows the one that has returned
\* without an I/O error, once the server has sent what it had to send.
SyncCall ==
    /\ pc = "idle"
    /\ fnOut.tag = "server"
    /\ Answered = Len(ctrlOut)
    /\ ~fnOut.owed
    /\ TypedReturn(result.r)
    /\ \E i \in 1..Len(fnIn.calls) :
          /\ result.op = (IF i = 1 THEN "connect" ELSE fnIn.calls[i - 1])
          /\ Start(fnIn.calls[i], SyncArgs(fnIn.calls[i]),
                   IF fnIn.calls[i] \in Transfers THEN "get_conn" ELSE "cmd_write")

NextSync ==
    \/ CallConnect
    \/ TcpConnect
    \/ SyncCall
    \/ GetDataConnection
    \/ WriteCommand
    \/ ReadReply
    \/ ReadError
    \/ DataConnect
    \/ DataRead
    \/ DataWrite
    \/ DataDrop
    \/ SyncGreeting
    \/ SyncAnswer
    \/ SyncCompletion
    \/ ServerData
    \/ ServerCloseData

SpecSync == InitSync /\ [][NextSync]_vars

---------------------------------------------------------------------------
(* A transfer whose command the server answers with a given first reply    *)

\* "229 ok (|||5000|)"
Reply229 ==
    <<"2", "2", "9", " ", "o", "k", " ", "(", "|", "|", "|", "5", "0", "0", "0", "|", ")",
      CR, LF>>

\* The line "<digits> x".
ReplyWithCode(digits) == digits \o <<" ", "x", CR, LF>>

\* First replies to the transfer command: the two preliminary codes, codes
\* of the 2xx and 3xx ranges, and a refusal.
FirstReplies ==
    {ReplyWithCode(digits) :
        digits \in {<<"1", "2", "5">>, <<"1", "5", "0">>, <<"2", "0", "0">>,
                    <<"2", "2", "6">>, <<"2", "5", "0">>, <<"3", "5", "0">>,
                    <<"3", "9", "8">>, <<"3", "9", "9">>, <<"5", "5", "0">>}}

\* The transfers the caller chooses from.
FirstReplyOperations == {"retrieve_file", "list_names", "store"}

\* The server sends the greeting, the replies to USER, PASS and EPSV, the
\* first reply to the transfer command, and then a further reply or nothing.
InitFirstReply ==
    /\ SessionInit
    /\ fn = "first_reply"
    /\ \E first \in FirstReplies, further \in {<<>>, <<Reply226>>} :
          fnIn = [script |-> <<Reply220, Reply331, Reply230, Reply229, first>> \o further,
                  first |-> first, further |-> further]
    /\ fnOut = [tag |-> "pending"]

\* A transfer called on the session connect has just returned.
CallFirstTransfer ==
    /\ pc = "idle"
    /\ result.op = "connect"
    /\ \E o \in FirstReplyOperations : Start(o, SyncArgs(o), "get_conn")

NextFirstReply ==
    \/ CallConnect
    \/ TcpConnect
    \/ CallFirstTransfer
    \/ GetDataConnection
    \/ WriteCommand
    \/ ReadReply
    \/ DataConnect
    \/ DataRead
    \/ DataWrite
    \/ DataDrop
    \/ ScriptReply
    \/ ScriptData
    \/ ScriptCloseData

SpecFirstReply == InitFirstReply /\ [][NextFirstReply]_vars

---------------------------------------------------------------------------
(* The claims                                                              *)

\* C1: in list, list_names and retrieve_file the completion reply is read
\* only after the data connection was read to its end: whenever a download
\* stands at the read of its completion reply, no byte the server sent is
\* unread and the end of the data stream was seen.
C1_CompletionAfterDrain ==
    (op \in Downloads /\ pc = "compl_read") => (dataIn = <<>> /\ dataSrvClosed)

\* A retrieve_file that read two bytes, then its completion reply, returned.
C1_Witness ==
    /\ pc = "idle"
    /\ result.op = "retrieve_file"
    /\ result.r = Ok(<<"a", LF>>)

\* C2: in store, store_unique and append the completion reply is read only
\* after the whole payload was written to the data connection and the data
\* connection was closed: whenever an upload stands at the read of its
\* completion reply, both have happened.
C2_CompletionAfterWriteAndClose ==
    (op \in Uploads /\ pc = "compl_read") => (dataOut = args.data /\ conn = "closed")

\* A store whose two bytes were written and whose data connection was
\* closed is about to read the completion reply the server sent.
C2_Witness ==
    /\ op = "store"
    /\ pc = "compl_read"
    /\ args.data = <<"a", "b">>
    /\ dataOut = <<"a", "b">>
    /\ conn = "closed"
    /\ ctrlIn # <<>>

\* The code of a line that starts with the digits i, j, k.
CodeOfDigits(d) == 100 * d[1] + 10 * d[2] + d[3]

\* C3: parse_reply_expecting accepts a reply if and only if its kind is in
\* the accepted set or 200 <= code < 400, and otherwise returns an
\* UnexpectedStatusCode error with the code, the message and the expected
\* kinds.
C3_AcceptIffExpectedOrPositive ==
    (fnOut.tag = "expecting" /\ fnIn.digits # <<>>) =>
        LET code == CodeOfDigits(fnIn.digits)
            accept == StatusCodeKindFrom(code) \in fnOut.valid
                      \/ (200 <= code /\ code < 400)
        IN  /\ (fnOut.r.tag = "Ok") <=> accept
            /\ ~accept =>
                  /\ fnOut.r.tag = "Err"
                  /\ fnOut.r.kind = "UnexpectedStatusCode"
                  /\ fnOut.r.summary = [code |-> code, message |-> Trim(fnIn.tail),
                                        expected |-> fnOut.valid]

\* C4: is_valid holds if and only if 200 <= code <= 399.
C4_IsValidRange ==
    fnOut.tag = "is_valid" => (fnOut.value <=> (200 <= fnIn.code /\ fnIn.code <= 399))

\* C5: is_failure and is_failure_status hold if and only if
\* 400 <= code <= 599.
C5_IsFailureRange ==
    fnOut.tag \in {"is_failure", "is_failure_status"} =>
        (fnOut.value <=> (400 <= fnIn.code /\ fnIn.code <= 599))

\* The table of the 20 codes and their kinds, as the specification lists it.
C6_Table(code) ==
    CASE code = 220 -> "ReadyForNewUser"
      [] code = 331 -> "PasswordRequired"
      [] code = 230 -> "UserLoggedIn"
      [] code = 221 -> "ClosingControlConnection"
      [] code = 200 -> "Ok"
      [] code = 211 -> "SystemStatus"
      [] code = 214 -> "HelpMessage"
      [] code = 215 -> "NameSystemType"
      [] code = 226 -> "RequestActionCompleted"
      [] code = 250 -> "RequestFileActionCompleted"
      [] code = 227 -> "EnteredPassiveMode"
      [] code = 229 -> "EnteredExtendedPassiveMode"
      [] code = 257 -> "PathCreated"
      [] code = 125 -> "TransferStarted"
      [] code = 150 -> "TransferAboutToStart"
      [] code = 350 -> "RequestActionPending"
      [] code = 202 -> "FeatureNotImplemented"
      [] code = 500 -> "CommandUnrecognized"
      [] code = 550 -> "RequestActionDenied"
      [] code = 553 -> "FileNameNotAllowed"
      [] OTHER -> "Unknown"

\* C6: StatusCodeKind::from maps every u16 to a kind: each of the 20 codes
\* of the table to the kind listed there, every other code to Unknown.
C6_ClassifyTable ==
    fnOut.tag = "from" => fnOut.kind = C6_Table(fnIn.code)

\* C7: for a line that starts with three digits, StatusCode::parse and
\* ServerResponse::parse yield the value of the three digits as the code and
\* the kind StatusCodeKind::from gives that code; and every reply that is
\* built at all has the kind of its code.
C7_ParseCodeAndKind ==
    /\ (fnOut.tag = "status_code_parse" /\ fnIn.digits # <<>>) =>
          /\ fnOut.r.tag = "Ok"
          /\ fnOut.r.code = CodeOfDigits(fnIn.digits)
          /\ fnOut.r.kind = StatusCodeKindFrom(CodeOfDigits(fnIn.digits))
    /\ (fnOut.tag = "parse" /\ fnIn.digits # <<>>) =>
          /\ fnOut.r.tag = "Ok"
          /\ fnOut.r.status_code.code = CodeOfDigits(fnIn.digits)
          /\ fnOut.r.status_code.kind = StatusCodeKindFrom(CodeOfDigits(fnIn.digits))
    /\ (fnOut.tag = "parse" /\ fnOut.r.tag = "Ok") =>
          fnOut.r.status_code.kind = StatusCodeKindFrom(fnOut.r.status_code.code)
    /\ (fnOut.tag = "expecting" /\ fnOut.r.tag = "Ok") =>
          fnOut.r.response.status_code.kind
              = StatusCodeKindFrom(fnOut.r.response.status_code.code)

\* "227 ok" was parsed: code 227, kind EnteredPassiveMode, message "ok".
C7_Witness ==
    /\ fnOut.tag = "parse"
    /\ fnIn.line = <<"2", "2", "7", " ", "o", "k", CR, LF>>
    /\ fnOut.r.tag = "Ok"
    /\ fnOut.r.status_code = [kind |-> "EnteredPassiveMode", code |-> 227]
    /\ fnOut.r.message = <<"o", "k">>

\* The tokens are six bytes.
SixBytes(tokens) ==
    Len(tokens) = 6 /\ \A i \in 1..6 : tokens[i].value # -1

\* C8: for a message whose parentheses enclose six comma-separated bytes
\* h1,h2,h3,h4,p1,p2, decode_passive_mode_ip returns h1.h2.h3.h4 with the
\* port p1 * 256 + p2, a value in 0..65535.
C8_PasvDecode ==
    (fnOut.tag = "pasv" /\ fnIn.shape = "both" /\ SixBytes(fnIn.tokens)) =>
        LET t == fnIn.tokens
        IN  /\ fnOut.r.tag = "Ok"
            /\ fnOut.r.ip = <<t[1].value, t[2].value, t[3].value, t[4].value>>
            /\ fnOut.r.port = t[5].value * 256 + t[6].value
            /\ fnOut.r.port \in 0..65535

\* (127,0,0,1,19,136) was decoded to 127.0.0.1:5000.
C8_Witness ==
    /\ fnOut.tag = "pasv"
    /\ fnIn.shape = "both"
    /\ fnIn.tokens = ExampleTokens
    /\ fnOut.r = [tag |-> "Ok", ip |-> <<127, 0, 0, 1>>, port |-> 5000]

\* The number of tokens that are bytes.
RECURSIVE NumericTokens(_)
NumericTokens(tokens) ==
    IF tokens = <<>> THEN 0
    ELSE (IF Head(tokens).value # -1 THEN 1 ELSE 0) + NumericTokens(Tail(tokens))

\* C9: for a message that lacks '(' or ')', or whose parentheses enclose
\* fewer than 6 numeric tokens, decode_passive_mode_ip returns an
\* InvalidSocketPassiveMode error: it neither panics nor returns an address.
C9_MalformedPasvIsError ==
    (/\ fnOut.tag = "pasv"
     /\ \/ fnIn.shape \in {"no_open", "no_close", "neither"}
        \/ fnIn.shape = "both" /\ NumericTokens(fnIn.tokens) < 6) =>
        fnOut.r = Err("InvalidSocketPassiveMode")

\* C10: for a message in which "|||" is followed by a port and the last
\* '|', decode_extended_passive_mode_socket returns the peer address of the
\* control connection with the port written between "|||" and that '|'.
C10_EpsvDecode ==
    (/\ fnOut.tag = "epsv"
     /\ fnIn.delim = <<"|", "|", "|">>
     /\ fnIn.close = <<"|">>
     /\ fnIn.port.value # -1
     /\ fnIn.peer.tag = "Ok"
     /\ (fnIn.pre = <<>> \/ fnIn.pre[Len(fnIn.pre)] # "|")) =>
        fnOut.r = [tag |-> "Ok", ip |-> fnIn.peer.ip, port |-> fnIn.port.value]

\* "(|||6446|)" with the control peer 203.0.113.5 was decoded to
\* 203.0.113.5:6446.
C10_Witness ==
    /\ fnOut.tag = "epsv"
    /\ fnIn.message = <<"(", "|", "|", "|", "6", "4", "4", "6", "|", ")">>
    /\ fnIn.peer = [tag |-> "Ok", ip |-> "203.0.113.5"]
    /\ fnOut.r = [tag |-> "Ok", ip |-> "203.0.113.5", port |-> 6446]

\* The offsets (1-based) at which "|||" stands in the message m.
TripleBars(m) ==
    {i \in 1..(Len(m) - 2) : m[i] = "|" /\ m[i + 1] = "|" /\ m[i + 2] = "|"}

\* The message m has "|||", a '|' after the first "|||", and between the two
\* the decimal text of a port.
WellFormedEpsv(m) ==
    /\ TripleBars(m) # {}
    /\ LET first == CHOOSE i \in TripleBars(m) : \A j \in TripleBars(m) : i <= j
       IN  \E last \in (first + 3)..Len(m) :
              /\ m[last] = "|"
              /\ \A j \in (last + 1)..Len(m) : m[j] # "|"
              /\ StrParse(SubSeq(m, first + 3, last - 1), U16Max) # -1

\* C11: for a message in which "|||" or the closing '|' is missing (the
\* message whose only '|' are those of "|||" included), or in which the text
\* between them is no integer in 0..65535,
\* decode_extended_passive_mode_socket returns an InvalidSocketPassiveMode
\* error: it neither panics nor returns an address.
C11_MalformedEpsvIsError ==
    (fnOut.tag = "epsv" /\ ~WellFormedEpsv(fnIn.message)) =>
        fnOut.r = Err("InvalidSocketPassiveMode")

\* The message of the reply line in the buffer, as ServerResponse::parse
\* takes it.
BufferMessage == Trim(SubSeq(buffer, 4, Len(buffer)))

\* C12: get_data_connection chooses the negotiation by the mode alone. When
\* a transfer is about to open its data connection, it has written exactly
\* one command, PASV with the mode Passive and EPSV with the mode
\* ExtendedPassive, it has read exactly one reply, and the address it
\* connects to is that reply decoded by the PASV algorithm, respectively by
\* the EPSV algorithm; and no data connection is open before that.
C12_NegotiationByMode ==
    /\ (op \in Transfers /\ pc = "neg_connect") =>
          /\ mode \in {"Passive", "ExtendedPassive"}
          /\ ctrlOut = <<[cmd |-> IF mode = "Passive" THEN "PASV" ELSE "EPSV",
                          arg |-> None]>>
          /\ ctrlRead = 1
          /\ conn = "none"
          /\ mode = "Passive" =>
                LET d == decode_passive_mode_ip(BufferMessage)
                IN  d.tag = "Ok" /\ socket = [ip |-> d.ip, port |-> d.port]
          /\ mode = "ExtendedPassive" =>
                \E peer \in Peers :
                   LET d == decode_extended_passive_mode_socket(BufferMessage, peer)
                   IN  d.tag = "Ok" /\ socket = [ip |-> d.ip, port |-> d.port]
    /\ (op \in Transfers /\ pc \in {"get_conn", "neg_write", "neg_read"}) =>
          /\ conn = "none"
          /\ socket = None
          /\ ctrlRead = 0
          /\ Len(ctrlOut) = (IF pc = "neg_read" THEN 1 ELSE 0)

\* With the mode Passive a transfer wrote PASV, read "227 (1,2,3,4,5,6)" and
\* is about to connect to 1.2.3.4:1286.
C12_Witness ==
    /\ op \in Transfers
    /\ pc = "neg_connect"
    /\ mode = "Passive"
    /\ ctrlOut = <<[cmd |-> "PASV", arg |-> None]>>
    /\ socket = [ip |-> <<1, 2, 3, 4>>, port |-> 1286]

\* With the mode ExtendedPassive a transfer wrote EPSV, read "229 (|||9|)"
\* and is about to connect to port 9 of the control connection's peer.
C12_WitnessExtended ==
    /\ op \in Transfers
    /\ pc = "neg_connect"
    /\ mode = "ExtendedPassive"
    /\ ctrlOut = <<[cmd |-> "EPSV", arg |-> None]>>
    /\ socket = [ip |-> "203.0.113.5", port |-> 9]

\* C13: with the mode Active get_data_connection, and so every transfer,
\* fails unconditionally: the transfer stops in get_data_connection, having
\* written no command, read no reply and opened no data connection.
C13_ActiveFails ==
    (op \in Transfers /\ mode = "Active") =>
        /\ pc \in {"get_conn", "panicked"}
        /\ ctrlOut = <<>>
        /\ ctrlRead = 0
        /\ conn = "none"
        /\ socket = None

\* A store called with the mode Active has failed in get_data_connection.
C13_Witness ==
    /\ op = "store"
    /\ mode = "Active"
    /\ pc = "panicked"
    /\ ctrlOut = <<>>

\* The two command lines of a two-step operation o, and the kinds its first
\* reply is checked against.
C14_First(o) ==
    IF o = "login" THEN [cmd |-> "USER", arg |-> Some("u")]
    ELSE [cmd |-> "RNFR", arg |-> Some("/")]
C14_Second(o) ==
    IF o = "login" THEN [cmd |-> "PASS", arg |-> Some("p")]
    ELSE [cmd |-> "RNTO", arg |-> Some("new")]
C14_FirstValid(o) ==
    IF o = "login" THEN {"PasswordRequired"} ELSE {"RequestActionPending"}

\* C14: in login (USER, PASS) and rename_file (RNFR, RNTO) the second
\* command is written only after the reply to the first was read and
\* accepted; an operation that returned because the first reply was rejected,
\* or because the write or the read of the first step failed, returned that
\* error and has written at most the first command.
C14_SecondOnlyAfterFirstAccepted ==
    /\ (op \in TwoStep /\ pc \in {"cmd_write", "cmd_read"}) =>
          /\ ctrlRead = 0
          /\ ctrlOut = (IF pc = "cmd_write" THEN <<>> ELSE <<C14_First(op)>>)
    /\ (op \in TwoStep /\ pc \in {"cmd2_write", "cmd2_read"}) =>
          /\ ctrlRead = 1
          /\ ParseReplyExpecting(buffer, C14_FirstValid(op)).tag = "Ok"
          /\ ctrlOut = (IF pc = "cmd2_write" THEN <<C14_First(op)>>
                        ELSE <<C14_First(op), C14_Second(op)>>)
    /\ (op = "none" /\ result.op \in TwoStep) =>
          /\ Len(ctrlOut) = 2 => ctrlRead >= 1
          /\ ctrlRead = 0 => (result.r = IoError /\ Len(ctrlOut) <= 1)
          /\ (/\ ctrlRead = 1
              /\ ParseReplyExpecting(buffer, C14_FirstValid(result.op)).tag = "Err") =>
                /\ ctrlOut = <<C14_First(result.op)>>
                /\ result.r.tag = "Err"
                /\ result.r.kind = "UnexpectedStatusCode"
                /\ result.r.summary
                      = ParseReplyExpecting(buffer, C14_FirstValid(result.op)).summary

\* A login whose USER was answered by "550 no" returned the
\* UnexpectedStatusCode error and wrote USER only.
C14_Witness ==
    /\ op = "none"
    /\ result.op = "login"
    /\ result.r.tag = "Err"
    /\ result.r.kind = "UnexpectedStatusCode"
    /\ result.r.summary.code = 550
    /\ ctrlRead = 1
    /\ ctrlOut = <<[cmd |-> "USER", arg |-> Some("u")]>>

\* A rename_file whose RNFR was accepted wrote RNTO and returned Ok.
C14_WitnessAccepted ==
    /\ op = "none"
    /\ result.op = "rename_file"
    /\ result.r = Ok("unit")
    /\ ctrlRead = 2
    /\ ctrlOut = <<[cmd |-> "RNFR", arg |-> Some("/")],
                   [cmd |-> "RNTO", arg |-> Some("new")]>>

C15_User == [cmd |-> "USER", arg |-> Some("u")]
C15_Pass == [cmd |-> "PASS", arg |-> Some("p")]

\* C15: connect reads the greeting, writes USER, reads its reply, writes
\* PASS and reads its reply, in this order: USER is written only after the
\* greeting was read and accepted, PASS only after the reply to USER was read
\* and accepted, and connect returns a Client only after the reply to PASS
\* was read and accepted; a connect that fails returns no Client.
C15_ConnectHandshakeOrder ==
    /\ (op = "connect" /\ pc \in {"tcp_connect", "greet_read"}) =>
          (ctrlRead = 0 /\ ctrlOut = <<>>)
    /\ (op = "connect" /\ pc \in {"cmd_write", "cmd_read"}) =>
          /\ ctrlRead = 1
          /\ ParseReplyExpecting(buffer, {"ReadyForNewUser"}).tag = "Ok"
          /\ ctrlOut = (IF pc = "cmd_write" THEN <<>> ELSE <<C15_User>>)
    /\ (op = "connect" /\ pc \in {"cmd2_write", "cmd2_read"}) =>
          /\ ctrlRead = 2
          /\ ParseReplyExpecting(buffer, {"PasswordRequired"}).tag = "Ok"
          /\ ctrlOut = (IF pc = "cmd2_write" THEN <<C15_User>>
                        ELSE <<C15_User, C15_Pass>>)
    /\ (op = "none" /\ result.op = "connect") =>
          /\ (pc = "idle") <=> (result.r.tag = "Ok")
          /\ (pc = "start") <=> (result.r.tag = "Err")
          /\ result.r.tag = "Ok" =>
                /\ ctrlRead = 3
                /\ ParseReplyExpecting(buffer, {"UserLoggedIn"}).tag = "Ok"
                /\ ctrlOut = <<C15_User, C15_Pass>>
    /\ (op = "none" /\ pc = "start") => result.op \in {"none", "connect"}

\* A connect whose three replies were accepted returned a Client.
C15_Witness ==
    /\ op = "none"
    /\ pc = "idle"
    /\ result.op = "connect"
    /\ result.r.tag = "Ok"
    /\ ctrlRead = 3
    /\ ctrlOut = <<C15_User, C15_Pass>>

\* A connect whose greeting was rejected returned the error, without a
\* Client and without having written USER.
C15_WitnessRejected ==
    /\ op = "none"
    /\ pc = "start"
    /\ result.op = "connect"
    /\ result.r.tag = "Err"
    /\ result.r.kind = "UnexpectedStatusCode"
    /\ ctrlRead = 1
    /\ ctrlOut = <<>>

\* C16: the welcome string is the trimmed message of the greeting that
\* connect read and accepted, and once connect is past the greeting no step
\* of any operation, successful or failing, changes what get_welcome returns.
C16_WelcomeImmutable ==
    [][/\ (pc = "greet_read" /\ pc' = "cmd_write") =>
             get_welcome' = Some(Trim(SubSeq(Head(ctrlIn), 4, Len(Head(ctrlIn)))))
       /\ pc \notin {"tcp_connect", "greet_read"} => get_welcome' = get_welcome
       /\ pc' \notin {"start", "tcp_connect", "greet_read", "panicked"} =>
             get_welcome'.tag = "Some"]_vars

\* In a session greeted by "220 hi" a later cwd was rejected, and get_welcome
\* still returns "hi".
C16_Witness ==
    /\ op = "none"
    /\ pc = "idle"
    /\ result.op = "cwd"
    /\ result.r.tag = "Err"
    /\ result.r.kind = "UnexpectedStatusCode"
    /\ get_welcome = Some(<<"h", "i">>)

\* The code of the reply line in the buffer, a line that starts with three
\* digits.
BufferCode == DecVal(SubSeq(buffer, 1, 3))

\* The reply in the buffer is neither RequestActionCompleted nor numerically
\* positive.
C17_CompletionFailed ==
    /\ StatusCodeKindFrom(BufferCode) # "RequestActionCompleted"
    /\ ~(200 <= BufferCode /\ BufferCode < 400)

\* C17: a retrieve_file whose completion reply is a failure such as 550,
\* neither RequestActionCompleted nor numerically positive, returns an
\* UnexpectedStatusCode error with that reply; a retrieve_file only ever
\* returns bytes after a completion reply that is not such a failure.
C17_RetrieveFailedCompletion ==
    (op = "none" /\ result.op = "retrieve_file") =>
        /\ (ctrlRead = 3 /\ C17_CompletionFailed) =>
              /\ result.r.tag = "Err"
              /\ result.r.kind = "UnexpectedStatusCode"
              /\ result.r.summary.code = BufferCode
              /\ result.r.summary.expected = {"RequestActionCompleted"}
        /\ result.r.tag = "Ok" => (ctrlRead = 3 /\ ~C17_CompletionFailed)

\* A retrieve_file read the data connection to its end, then "550 no" as its
\* completion reply, and returned the UnexpectedStatusCode error.
C17_Witness ==
    /\ op = "none"
    /\ result.op = "retrieve_file"
    /\ ctrlRead = 3
    /\ buffer = <<"5", "5", "0", " ", "n", "o", CR, LF>>
    /\ result.r.tag = "Err"
    /\ result.r.kind = "UnexpectedStatusCode"
    /\ result.r.summary.code = 550

\* The sequence of lines ls, each followed by LF or by CR LF (the last one
\* maybe by nothing, when it is not empty), is the text t: no line is
\* dropped, merged or reordered.
RECURSIVE C18_Rejoins(_, _)
C18_Rejoins(ls, t) ==
    IF ls = <<>> THEN t = <<>>
    ELSE LET l == Head(ls)
             n == Len(l)
             r == SubSeq(t, n + 1, Len(t))
         IN  /\ n <= Len(t)
             /\ SubSeq(t, 1, n) = l
             /\ \A i \in 1..n : l[i] # LF
             /\ \/ Len(ls) = 1 /\ r = <<>> /\ l # <<>>
                \/ /\ r # <<>> /\ r[1] = LF
                   /\ (l = <<>> \/ l[n] # CR)
                   /\ C18_Rejoins(Tail(ls), SubSeq(r, 2, Len(r)))
                \/ /\ Len(r) >= 2 /\ r[1] = CR /\ r[2] = LF
                   /\ C18_Rejoins(Tail(ls), SubSeq(r, 3, Len(r)))

\* C18: a list_names that succeeds returns the text of the data connection
\* cut at its line terminators, one element per line, in the order of the
\* text, with no line dropped or merged; it returns the empty sequence when
\* the data connection delivered nothing.
C18_ListNamesLines ==
    (fnOut.tag = "list_names" /\ fnOut.r.tag = "Ok") =>
        /\ C18_Rejoins(fnOut.r.value, fnIn.text)
        /\ fnIn.text = <<>> => fnOut.r.value = <<>>

\* "a" CR LF "b" CR LF was returned as the names a, b.
C18_Witness ==
    /\ fnOut.tag = "list_names"
    /\ fnIn.text = <<"a", CR, LF, "b", CR, LF>>
    /\ fnOut.r = Ok(<< <<"a">>, <<"b">> >>)

\* Nothing on the data connection was returned as no name.
C18_WitnessEmpty ==
    /\ fnOut.tag = "list_names"
    /\ fnIn.text = <<>>
    /\ fnOut.r = Ok(<<>>)

C19_Names == << <<"a", ".", "t", "x", "t">>, <<"b", ".", "t", "x", "t">> >>
C19_Ready == Some(<<"r", "e", "a", "d", "y">>)
C19_Nlst == [cmd |-> "NLST", arg |-> Some("/")]

\* C19 as stated: against the scripted server connect succeeds with the
\* welcome string "ready", and every list_names("/") on that session that
\* returns anything but a transport error has sent PASV and returns the
\* names a.txt, b.txt in this order.
C19_ScenarioAsStated ==
    /\ (op = "none" /\ result.op = "connect" /\ result.r.tag = "Ok") =>
          get_welcome = C19_Ready
    /\ (op = "none" /\ result.op = "list_names" /\ result.r # IoError) =>
          /\ ctrlOut # <<>>
          /\ ctrlOut[1] = [cmd |-> "PASV", arg |-> None]
          /\ result.r = Ok(C19_Names)

\* C19, with the mode and the reply to NLST made explicit: against the
\* scripted server connect succeeds with the
\* welcome string "ready"; a list_names("/") on that session, once the mode
\* was set to Passive and when the server answers NLST with a preliminary
\* reply before the completion reply, sends PASV, connects to
\* 127.0.0.1:5000, sends NLST and, unless the transport fails, returns the
\* names a.txt, b.txt in this order.
C19_ScenarioPassive ==
    /\ (op = "none" /\ result.op = "connect" /\ result.r.tag = "Ok") =>
          /\ get_welcome = C19_Ready
          /\ ctrlOut = <<C15_User, C15_Pass>>
    /\ (op = "list_names" /\ mode = "Passive" /\ pc = "neg_connect") =>
          /\ ctrlOut = <<[cmd |-> "PASV", arg |-> None]>>
          /\ socket = [ip |-> <<127, 0, 0, 1>>, port |-> 5000]
    /\ (/\ op = "none" /\ result.op = "list_names" /\ result.r # IoError
        /\ ctrlOut # <<>> /\ ctrlOut[1].cmd = "PASV"
        /\ fnIn.script = ScenarioScript) =>
          /\ ctrlOut = <<[cmd |-> "PASV", arg |-> None], C19_Nlst>>
          /\ ctrlRead = 3
          /\ result.r = Ok(C19_Names)
          /\ get_welcome = C19_Ready

\* The list_names of the scenario, with the mode Passive, returned a.txt,
\* b.txt.
C19_Witness ==
    /\ op = "none"
    /\ result.op = "list_names"
    /\ fnIn.script = ScenarioScript
    /\ ctrlOut = <<[cmd |-> "PASV", arg |-> None], C19_Nlst>>
    /\ result.r = Ok(C19_Names)
    /\ get_welcome = C19_Ready

\* C20: restart, abort and allocate always fail with a not-implemented
\* condition that reaches the caller as a typed error result: the call
\* returns an Err value, it does not panic, and it writes nothing on the
\* control connection.
C20_UnimplementedIsTypedError ==
    /\ op \in Unimplemented => (pc # "panicked" /\ ctrlOut = <<>> /\ ctrlRead = 0)
    /\ result.op \in Unimplemented =>
          (result.r.tag = "Err" /\ result.r.kind = "NotImplemented" /\ ctrlOut = <<>>)

\* No command line stands twice in the sequence s.
C21_NoRepeat(s) == \A i, j \in 1..Len(s) : s[i] = s[j] => i = j

\* The places where an operation does I/O on the control connection or on
\* the data connection.
C21_IoPcs ==
    WritePcs \cup ReadPcs
        \cup {"tcp_connect", "neg_connect", "data_read", "data_write", "raw_read"}

\* C21: an I/O error on a write or a read of the control connection, or on
\* the connect, a read or a write of the data connection, is returned as the
\* result of the operation in which it occurred, in the very step that
\* failed: nothing is written or read again, and in one invocation no
\* command line is written twice.
C21_IoErrorReturnedNotRetried ==
    [][/\ (result' # result /\ result'.r = IoError) =>
             /\ op # "none"
             /\ pc \in C21_IoPcs
             /\ result'.op = op
             /\ op' = "none"
             /\ pc' \in {"idle", "start"}
             /\ ctrlOut' = ctrlOut
             /\ ctrlRead' = ctrlRead
             /\ ctrlIn' = ctrlIn
       /\ C21_NoRepeat(ctrlOut')
       /\ Len(ctrlOut') <= 2]_vars

\* A retrieve_file whose read of the data connection (or of the completion
\* reply) failed returned the I/O error, having written EPSV and RETR once.
C21_Witness ==
    /\ op = "none"
    /\ result.op = "retrieve_file"
    /\ result.r = IoError
    /\ ctrlRead = 2
    /\ ctrlOut = <<[cmd |-> "EPSV", arg |-> None], [cmd |-> "RETR", arg |-> Some("/")]>>

\* C22 as stated: in list, list_names and retrieve_file the data connection
\* is closed before the completion reply is read: whenever a download stands
\* at the read of its completion reply, its data connection is closed.
C22_DroppedBeforeCompletion ==
    (op \in Downloads /\ pc = "compl_read") => conn = "closed"

\* C22, with the place of the drop as the code has it: whenever a download
\* stands at the read of its completion reply, its data connection is
\* drained to the end of the stream and still held; it is dropped in the
\* step in which the operation returns, and not before.
C22_DroppedAtReturn ==
    [][/\ (op' \in Downloads /\ pc' = "compl_read") =>
             (conn' = "open" /\ dataIn' = <<>> /\ dataSrvClosed')
       /\ (op \in Downloads /\ conn = "open" /\ conn' # "open") =>
             (op' = "none" /\ conn' = "closed" /\ result'.op = op)
       /\ (op' = "none" /\ result'.op \in Downloads) => conn' # "open"]_vars

\* A list has read "a" and the end of the data stream, and is about to read
\* the completion reply the server sent, its data connection still open.
C22_Witness ==
    /\ op = "list"
    /\ pc = "compl_read"
    /\ conn = "open"
    /\ dataBuf = <<"a">>
    /\ dataSrvClosed
    /\ ctrlIn # <<>>

\* C23: a data connection is confined to the operation that opened it. A
\* data connection is opened only by a running transfer that has none yet,
\* so at most one is open in a session; a data connection is open only
\* while a transfer runs; and when a transfer has returned, with Ok or with
\* any error, its data connection is not open.
C23_DataConnectionConfined ==
    [][/\ (conn' = "open" /\ conn # "open") =>
             (conn = "none" /\ op \in Transfers /\ op' = op /\ pc = "neg_connect")
       /\ conn' = "open" => op' \in Transfers
       /\ op' = "none" => conn' # "open"
       /\ (op \in Transfers /\ op' = "none" /\ conn # "none") => conn' = "closed"]_vars

\* A store whose STOR was rejected, after its data connection was opened,
\* returned the error; the data connection is closed.
C23_Witness ==
    /\ op = "none"
    /\ result.op = "store"
    /\ result.r.tag = "Err"
    /\ result.r.kind = "UnexpectedStatusCode"
    /\ ctrlRead = 2
    /\ conn = "closed"

C24_TransferVerbs == {"LIST", "NLST", "RETR", "STOR", "STOU", "APPE"}
C24_NegotiationVerbs == {"PASV", "EPSV"}

\* C24: a transfer writes its transfer command only after the negotiation
\* reply was read and accepted, the address decoded and the data connection
\* established; a transfer that returned without a data connection (the
\* negotiation reply was rejected, the address did not decode, or a write, a
\* read or the connect failed) returned that error and never wrote its
\* transfer command.
C24_TransferCommandAfterDataConnection ==
    /\ (op \in Transfers /\ pc = "cmd_write") =>
          /\ ctrlRead = 1
          /\ ParseReplyExpecting(buffer, Negotiation(mode).valid).tag = "Ok"
          /\ socket # None
          /\ conn = "open"
          /\ Len(ctrlOut) = 1
          /\ ctrlOut[1].cmd \in C24_NegotiationVerbs
    /\ (op \in Transfers /\ Len(ctrlOut) >= 2) =>
          /\ Len(ctrlOut) = 2
          /\ ctrlOut[1].cmd \in C24_NegotiationVerbs
          /\ ctrlOut[2].cmd \in C24_TransferVerbs
          /\ ctrlRead >= 1
          /\ socket # None
          /\ conn # "none"
    /\ (op = "none" /\ result.op \in Transfers /\ conn = "none") =>
          /\ result.r.tag = "Err"
          /\ result.r.kind \in {"IoError", "UnexpectedStatusCode", "InvalidSocketPassiveMode"}
          /\ \A i \in 1..Len(ctrlOut) : ctrlOut[i].cmd \notin C24_TransferVerbs
          /\ Len(ctrlOut) <= 1
    /\ (op = "none" /\ result.op \in Transfers
        /\ \E i \in 1..Len(ctrlOut) : ctrlOut[i].cmd \in C24_TransferVerbs) =>
          (ctrlRead >= 1 /\ conn = "closed")

\* With the mode Passive a list got the reply "229 (|||9|)" to PASV: the
\* address did not decode and list returned the error, LIST never written.
C24_Witness ==
    /\ op = "none"
    /\ result.op = "list"
    /\ result.r = Err("InvalidSocketPassiveMode")
    /\ ctrlOut = <<[cmd |-> "PASV", arg |-> None]>>
    /\ conn = "none"

\* A store wrote STOR after its data connection was established.
C24_WitnessWritten ==
    /\ op = "store"
    /\ pc = "cmd_read"
    /\ conn = "open"
    /\ ctrlOut = <<[cmd |-> "EPSV", arg |-> None], [cmd |-> "STOR", arg |-> Some("/")]>>

\* The code of a reply line that starts with three digits.
C25_Code(line) == DecVal(SubSeq(line, 1, 3))

\* The line is a reply that is neither TransferStarted, TransferAboutToStart
\* nor numerically positive.
C25_Rejected(line) ==
    /\ StatusCodeKindFrom(C25_Code(line)) \notin {"TransferStarted", "TransferAboutToStart"}
    /\ ~(200 <= C25_Code(line) /\ C25_Code(line) < 400)

\* C25: when the reply to the transfer command is rejected, the transfer
\* returns the UnexpectedStatusCode error in the step that read the reply:
\* until then it has read no byte from and written no byte to the data
\* connection, and it reads no further reply (two replies in all, the
\* negotiation's and this one).
C25_RejectedTransferReply ==
    [][/\ (op' \in Transfers /\ pc' \in {"cmd_write", "cmd_read"}) =>
             (dataBuf' = <<>> /\ dataOut' = <<>>)
       /\ (/\ op \in Transfers /\ pc = "cmd_read"
           /\ ctrlIn # <<>> /\ ctrlIn' = Tail(ctrlIn)
           /\ C25_Rejected(Head(ctrlIn))) =>
             /\ dataBuf = <<>> /\ dataOut = <<>>
             /\ op' = "none"
             /\ pc' = "idle"
             /\ result'.op = op
             /\ result'.r.tag = "Err"
             /\ result'.r.kind = "UnexpectedStatusCode"
             /\ result'.r.summary.code = C25_Code(Head(ctrlIn))
             /\ ctrlRead' = 2
             /\ conn' = "closed"]_vars

\* A retrieve_file whose RETR was answered by "550 no" returned the
\* UnexpectedStatusCode error after two replies.
C25_Witness ==
    /\ op = "none"
    /\ result.op = "retrieve_file"
    /\ result.r.tag = "Err"
    /\ result.r.kind = "UnexpectedStatusCode"
    /\ result.r.summary.code = 550
    /\ ctrlRead = 2
    /\ conn = "closed"

\* The message of a reply line: what follows its code, trimmed.
C26_Message(line) == Trim(SubSeq(line, 4, Len(line)))

C26_MessageOps == {"status", "pwd", "site_parameters", "system", "store_unique"}

\* C26: a reply is built from the line read by the call that returns it and
\* from nothing else. In every step that reads a line the buffer becomes
\* exactly that line, whatever it held before; read_reply returns that line;
\* and the welcome string, the message an operation returns and the code and
\* message of an UnexpectedStatusCode error are those of that line.
C26_ReplyFromOwnLine ==
    [][ctrlRead' = ctrlRead + 1 =>
          LET line == Head(ctrlIn)
          IN  /\ ctrlIn # <<>>
              /\ buffer' = line
              /\ op = "read_reply" => result'.r = Ok(line)
              /\ (pc = "greet_read" /\ pc' = "cmd_write") =>
                    welcome_string' = Some(C26_Message(line))
              /\ (op \in C26_MessageOps /\ op' = "none" /\ result'.r.tag = "Ok") =>
                    result'.r = Ok(C26_Message(line))
              /\ (op' = "none" /\ result'.r.tag = "Err"
                  /\ result'.r.kind = "UnexpectedStatusCode") =>
                    /\ result'.r.summary.message = C26_Message(line)
                    /\ result'.r.summary.code = DecVal(SubSeq(line, 1, 3))]_vars

\* In a session greeted by "220 hi", whose buffer has held that line and the
\* replies of connect, status returned "ok", the message of "226 ok" alone.
C26_Witness ==
    /\ op = "none"
    /\ result.op = "status"
    /\ result.r = Ok(<<"o", "k">>)
    /\ buffer = <<"2", "2", "6", " ", "o", "k", CR, LF>>
    /\ welcome_string = Some(<<"h", "i">>)

\* read_reply returned the line "550 no" as it was read.
C26_WitnessRaw ==
    /\ op = "none"
    /\ result.op = "read_reply"
    /\ result.r = Ok(<<"5", "5", "0", " ", "n", "o", CR, LF>>)

C27_Listings == {"list", "list_names"}

\* parse_reply_expecting(vec![RequestActionCompleted]) accepts the line.
C27_CompletionAccepted(line) ==
    LET code == DecVal(SubSeq(line, 1, 3))
    IN  \/ StatusCodeKindFrom(code) = "RequestActionCompleted"
        \/ (200 <= code /\ code < 400)

C27_Failed(r, kind) == r.tag = "Err" /\ r.kind = kind

\* C27: list and list_names convert the data bytes only after the completion
\* reply has been read and accepted. When that reply is accepted, the result is
\* SerializationFailed exactly when the bytes are not valid UTF-8; when it is
\* rejected, the result is UnexpectedStatusCode whether the bytes are valid or
\* not; and SerializationFailed is returned by no other step.
C27_SerializationAfterCompletion ==
    [][/\ (op \in C27_Listings /\ pc = "compl_read" /\ ctrlRead' = ctrlRead + 1) =>
             /\ op' = "none"
             /\ IF C27_CompletionAccepted(Head(ctrlIn))
                THEN C27_Failed(result'.r, "SerializationFailed") <=> ~IsUtf8(dataBuf)
                ELSE C27_Failed(result'.r, "UnexpectedStatusCode")
       /\ (result' # result /\ C27_Failed(result'.r, "SerializationFailed")) =>
             /\ op \in C27_Listings
             /\ pc = "compl_read"
             /\ ctrlRead' = ctrlRead + 1
             /\ ctrlIn # <<>>
             /\ C27_CompletionAccepted(Head(ctrlIn))
             /\ ~IsUtf8(dataBuf)]_vars

\* list returned SerializationFailed after reading its three replies: to
\* the negotiation, to LIST, and the completion.
C27_Witness ==
    /\ op = "none"
    /\ result.op = "list"
    /\ C27_Failed(result.r, "SerializationFailed")
    /\ ctrlRead = 3

\* list_names is about to read the rejected completion reply "550 no" with data
\* bytes that are not valid UTF-8.
C27_WitnessRejected ==
    /\ op = "list_names"
    /\ pc = "compl_read"
    /\ ~IsUtf8(dataBuf)
    /\ ctrlIn = <<<<"5", "5", "0", " ", "n", "o", CR, LF>>>>

\* The reply was accepted through the liberal path: its kind is not among
\* valid_statuses and it was accepted all the same.
C28_AcceptedLiberally(out) ==
    /\ out.r.tag = "Ok"
    /\ out.r.response.status_code.kind \notin out.valid

\* C28: parse_reply_expecting logs the "unexpected positive status accepted"
\* warning exactly when the reply is accepted through the liberal path; it
\* logs nothing when the kind is among valid_statuses or the reply is
\* rejected.
C28_WarnOnlyOnLiberalAccept ==
    (fnOut.tag = "expecting" /\ fnOut.r.tag # "Panic") =>
        (fnOut.r.warned <=> C28_AcceptedLiberally(fnOut))

\* The position, among the lines the server has sent on the connection, of
\* the line the next read takes.
C29_Position == fnOut.sent - Len(ctrlIn) + 1

\* C29: each reply read takes exactly one line of the control stream. When
\* the reply to STAT has n > 1 lines, status takes its first line and the
\* reads that take lines 2..n are those of later commands: each returns a
\* result built from the leftover line of the reply to STAT, not from the
\* reply to its own command.
C29_MultilineDesynchronizes ==
    [][(fn = "multiline" /\ ctrlRead' = ctrlRead + 1) =>
          LET n == fnIn.lines
              k == C29_Position
              line == Head(ctrlIn)
          IN  /\ ctrlIn # <<>>
              /\ ctrlIn' = Tail(ctrlIn)
              /\ buffer' = line
              /\ (fnOut.statAt > 0 /\ k = fnOut.statAt) => op = "status"
              /\ op = "status" => (fnOut.statAt > 0 => k = fnOut.statAt)
              /\ (fnOut.statAt > 0 /\ fnOut.statAt < k /\ k < fnOut.statAt + n) =>
                    /\ op \in {"pwd", "system", "noop"}
                    /\ line = StatLine(k - fnOut.statAt + 1, n)
                    /\ line \notin {ReplyTo(Command(op).cmd, n)[1]}
                    /\ op' = "none"
                    /\ result'.op = op
                    /\ result'.r = IF op = "noop" THEN Ok("unit")
                                   ELSE Ok(Trim(SubSeq(line, 4, Len(line))))]_vars

\* The reply to STAT had three lines, and system, the second operation after
\* status, returned "end", the message of the last of them.
C29_Witness ==
    /\ fn = "multiline"
    /\ fnIn.lines = 3
    /\ op = "none"
    /\ result.op = "system"
    /\ result.r = Ok(<<"e", "n", "d">>)

\* The reply to STAT had two lines, and pwd returned "end" while the reply to
\* PWD was still unread.
C29_WitnessPending ==
    /\ fn = "multiline"
    /\ fnIn.lines = 2
    /\ op = "none"
    /\ result.op = "pwd"
    /\ result.r = Ok(<<"e", "n", "d">>)
    /\ ctrlIn = ReplyTo("PWD", 2)

\* The line begins with three ASCII digits.
C30_BeginsWithCode(line) ==
    /\ Len(line) >= 3
    /\ \A i \in 1..3 : IsDigit(line[i])

\* C30: when the line read does not begin with three ASCII digits, the empty
\* line included, StatusCode::parse, ServerResponse::parse and
\* parse_reply_expecting panic; none returns a value.
C30_MalformedLinePanics ==
    (fnOut.tag \in {"status_code_parse", "parse", "expecting"}
     /\ ~C30_BeginsWithCode(fnIn.line)) =>
        fnOut.r.tag = "Panic"

\* A token between the parentheses is no number in 0..255.
C31_HasInvalidToken ==
    \E i \in 1..Len(fnIn.tokens) : fnIn.tokens[i].value = -1

\* C31: decode_passive_mode_ip fails with InvalidSocketPassiveMode whenever a
\* token between the parentheses is no number in 0..255, even when six or more
\* of the other tokens are valid; it builds no address from the other tokens.
C31_InvalidTokenIsError ==
    (fnOut.tag = "pasv" /\ fnIn.shape = "both" /\ C31_HasInvalidToken) =>
        fnOut.r = Err("InvalidSocketPassiveMode")

\* "(127,x,0,0,1,19,136)" or "(127,256,0,0,1,19,136)" decoded as
\* 127.0.0.1:5000, the token that is no byte left out.
C31_AddressFromRemainingTokens ==
    /\ fnOut.tag = "pasv"
    /\ fnIn.tokens \in ExampleTokensWithInvalid
    /\ fnIn.shape = "both"
    /\ fnOut.r.tag = "Ok"
    /\ fnOut.r.ip = <<127, 0, 0, 1>>
    /\ fnOut.r.port = 5000

\* The last operation returned a value, or a status or decode error raised
\* before its transfer command was accepted: for a transfer, in one of its
\* first two reads.
C32_Returned ==
    /\ pc = "idle"
    /\ op = "none"
    /\ \/ result.r.tag = "Ok"
       \/ /\ result.r.tag = "Err"
          /\ result.r.kind \in {"UnexpectedStatusCode", "InvalidSocketPassiveMode"}
          /\ result.op \in Transfers => ctrlRead <= 2

\* The lines the client has taken from the control stream.
C32_Read == Len(fnOut.log) - Len(ctrlIn)

\* When every operation so far has returned a value or a typed error and the
\* last one a value or a status or decode error raised before its transfer
\* command was accepted, the server has nothing left to send and the client
\* has read as many lines as the server has sent.
C32_ReadEqualsSent ==
    (fn = "sync" /\ C32_Returned) =>
        /\ Answered = Len(ctrlOut)
        /\ ~fnOut.owed
        /\ C32_Read = Len(fnOut.log)

\* Every line an operation reads is the reply to the command it has just
\* written, or the completion reply of its transfer.
C32_ReadsOwnReply ==
    [][(fn = "sync" /\ ctrlRead' = ctrlRead + 1) =>
          LET sent == fnOut.log[C32_Read + 1]
          IN  /\ sent.o = op
              /\ sent.what = CASE pc = "greet_read" -> "greeting"
                               [] pc = "compl_read" -> "completion"
                               [] OTHER -> "reply"
              /\ sent.i = Len(ctrlOut)]_vars

\* C32: against a server that sends one line per command and one completion
\* reply per transfer it has accepted, after operations that each returned a
\* value or a status or decode error raised before the transfer command was
\* accepted, the client has read as many lines as the server has sent, and
\* every command reads its own reply.
C32_Synchronized == []C32_ReadEqualsSent /\ C32_ReadsOwnReply

\* pwd has returned and retrieve_file, called next, was refused with
\* "550 no" in reply to RETR, the second line it read and the last the server
\* sent.
C32_Witness ==
    /\ fn = "sync"
    /\ fnIn.calls = <<"pwd", "retrieve_file">>
    /\ C32_Returned
    /\ result.op = "retrieve_file"
    /\ result.r.tag = "Err"
    /\ result.r.kind = "UnexpectedStatusCode"
    /\ result.r.summary.code = 550
    /\ ctrlRead = 2
    /\ fnOut.log[Len(fnOut.log)] = [o |-> "retrieve_file", what |-> "reply", i |-> 2]
    /\ \E k \in 1..Len(fnOut.log) :
          fnOut.log[k] = [o |-> "pwd", what |-> "reply", i |-> 1]

\* store returned after its completion reply, the sixth line the server sent.
C32_WitnessTransfer ==
    /\ fn = "sync"
    /\ C32_Returned
    /\ result.op = "store"
    /\ result.r.tag = "Ok"
    /\ ctrlRead = 3
    /\ fnOut.log[Len(fnOut.log)].what = "completion"

\* The code of the first reply is in the 2xx or 3xx range.
C33_FirstIsPositive ==
    LET code == DecVal(SubSeq(fnIn.first, 1, 3))
    IN  200 <= code /\ code < 400

\* C33: when the first reply to a transfer command is positive (2xx or 3xx),
\* the client takes it as the preliminary reply: the step that reads it goes
\* on to the data connection, and the operation returns a value or a status
\* error only in a step that reads one more reply, its third; when the server
\* sends no further reply the operation does not return.
C33_PositiveFirstReplyIsPreliminary ==
    [][(fn = "first_reply" /\ op \in Transfers /\ C33_FirstIsPositive) =>
          /\ (pc = "cmd_read" /\ ctrlRead' = ctrlRead + 1) =>
                pc' = (IF op \in Downloads THEN "data_read" ELSE "data_write")
          /\ (op' = "none" /\ result'.r.tag = "Ok") =>
                (pc = "compl_read" /\ ctrlRead = 2 /\ ctrlRead' = 3
                 /\ fnIn.further # <<>>)
          /\ (op' = "none" /\ result'.r.tag = "Err"
              /\ result'.r.kind = "UnexpectedStatusCode") =>
                ctrlRead' # 2]_vars

\* retrieve_file, whose RETR was answered "226 x", waits for a further reply
\* with the data connection drained and nothing more to come.
C33_WitnessWaiting ==
    /\ fn = "first_reply"
    /\ fnIn.first = ReplyWithCode(<<"2", "2", "6">>)
    /\ fnIn.further = <<>>
    /\ op = "retrieve_file"
    /\ pc = "compl_read"
    /\ ctrlRead = 2
    /\ ctrlIn = <<>>

\* RETR answered "399 x": retrieve_file returned UnexpectedStatusCode from its
\* second read.
C33_Refused399 ==
    /\ fn = "first_reply"
    /\ fnIn.first = ReplyWithCode(<<"3", "9", "9">>)
    /\ op = "none"
    /\ result.op = "retrieve_file"
    /\ result.r.tag = "Err"
    /\ result.r.kind = "UnexpectedStatusCode"
    /\ ctrlRead = 2

\* What holds of the code: the same for the first replies is_valid accepts,
\* those with a code in 200..398.
C33_ValidFirstReplyIsPreliminary ==
    [][(fn = "first_reply" /\ op \in Transfers
        /\ is_valid(StatusCodeParse(fnIn.first))) =>
          /\ (pc = "cmd_read" /\ ctrlRead' = ctrlRead + 1) =>
                pc' = (IF op \in Downloads THEN "data_read" ELSE "data_write")
          /\ (op' = "none" /\ result'.r.tag = "Ok") =>
                (pc = "compl_read" /\ ctrlRead = 2 /\ ctrlRead' = 3
                 /\ fnIn.further # <<>>)
          /\ (op' = "none" /\ result'.r.tag = "Err"
              /\ result'.r.kind = "UnexpectedStatusCode") =>
                ctrlRead' # 2]_vars

C34_WitnessTls ==
    /\ welcome_string # None
    /\ op = "connect"
    /\ args.tls
    /\ pc = "cmd2_read"
    /\ mode = "ExtendedPassive"

===========================================================================
